---- MODULE Spec2Model ----
(***************************************************************************)
(* Graded-reader content pipeline: the JLPT vocabulary validator           *)
(* (vocabulary_validator.py), the tokenizer's furigana alignment and       *)
(* compound merge (tokenizer.py) and the regeneration loop (pipeline.py).  *)
(*                                                                         *)
(* Text is a sequence of Unicode codepoints, so that the character tests   *)
(* of the code (kanji block, katakana block, whitespace) are computed as   *)
(* the code computes them.                                                 *)
(***************************************************************************)
EXTENDS Integers, Sequences, FiniteSets, TLC

VARIABLES
  data_dir_exists,   \* environment: backend/data/jlpt exists
  level_files,       \* environment: level -> [exists, lines] of n5.txt .. n1.txt
  word_lists,        \* VocabularyValidator._word_lists (cumulative sets)
  level_specific,    \* VocabularyValidator._level_specific
  vpc,               \* validator driver: "new" | "idle" | "returned"
  call,              \* the call in progress or just returned
  result,            \* the value that call returned
  previous,          \* the call before this one and what it returned
  tpc,               \* tokenizer driver: "idle" | "returned"
  input_text,        \* argument text of tokenize_text
  tagged,            \* the morphemes self.tagger(text) yielded for the call
  tokenized,         \* the list tokenize_text returned
  lpc,               \* position in _generate_with_validation_loop
  max_attempts,      \* argument of the loop
  tokenize,          \* argument of the loop
  attempt,           \* the loop variable
  heap,              \* the story dicts created so far; a story is named by its index
  story,             \* local variable story (index into heap, 0 before the first)
  best_story,        \* local variable best_story (index into heap, 0 for None)
  best_validation,   \* local variable best_validation
  outcome,           \* how the loop ended: a returned story or a raised exception
  generator,         \* what self.story_generator is
  jlpt_level,        \* argument of the loop
  feedback,          \* the arguments of the last regenerate_story call
  trace,             \* the calls the loop has awaited so far, in order
  candidates,        \* the stories the loop has compared with its best, in order
  _validator,        \* module global of vocabulary_validator.py (0 for None)
  _tokenizer_service, \* module global of tokenizer.py (0 for None)
  constructed,       \* how many instances of each class were constructed
  received,          \* caller -> the instances its calls returned (0: none yet)
  position           \* caller -> where it is inside get_validator / get_tokenizer_service

vvars == <<data_dir_exists, level_files, word_lists, level_specific, vpc, call, result,
           previous>>
tvars == <<tpc, input_text, tagged, tokenized>>
lvars == <<lpc, max_attempts, tokenize, attempt, heap, story, best_story,
           best_validation, outcome, generator, jlpt_level, feedback, trace,
           candidates>>
svars == <<_validator, _tokenizer_service, constructed, received, position>>
vars == <<vvars, tvars, lvars, svars>>

(***************************************************************************)
(* Python values                                                           *)
(***************************************************************************)
\* None where a str is expected (no codepoint is negative)
None == <<-1>>
\* None where a level name is expected
NoLevel == "None"
\* the empty dict
EmptyDict == [k \in {} |-> {}]
\* dict.get(key, default)
DictGet(d, key, default) == IF key \in DOMAIN d THEN d[key] ELSE default
\* bool(s) of a str or None
Truthy(s) == s # None /\ s # <<>>

RECURSIVE SumSeq(_)
SumSeq(s) == IF s = <<>> THEN 0 ELSE Head(s) + SumSeq(Tail(s))

Min(a, b) == IF a < b THEN a ELSE b
Range(s) == {s[i] : i \in DOMAIN s}
Take(s, n) == SubSeq(s, 1, Min(n, Len(s)))

\* the subsets of S with exactly n elements
RECURSIVE KSubsets(_, _)
KSubsets(S, n) ==
  IF n = 0 THEN {{}}
  ELSE IF n >= Cardinality(S) THEN {S}
  ELSE LET x == CHOOSE y \in S : TRUE
       IN  {T \cup {x} : T \in KSubsets(S \ {x}, n - 1)} \cup KSubsets(S \ {x}, n)

(***************************************************************************)
(* vocabulary_validator.py: module constants                               *)
(***************************************************************************)
\* KATAKANA_PATTERN = re.compile("^[U+30A1-U+30F6 U+30FC]+$"), used with
\* .match: one or more characters of the class; "$" also matches before a
\* final newline.
KatakanaClass(c) == (12449 <= c /\ c <= 12534) \/ c = 12540
AllKatakana(w) == Len(w) >= 1 /\ \A i \in DOMAIN w : KatakanaClass(w[i])
KATAKANA_PATTERN(w) ==
  \/ AllKatakana(w)
  \/ Len(w) >= 2 /\ w[Len(w)] = 10 /\ AllKatakana(SubSeq(w, 1, Len(w) - 1))

JLPT_LEVELS == <<"N5", "N4", "N3", "N2", "N1">>

\* JLPT_LEVELS.index(level)
LevelIndex(level) == CHOOSE i \in DOMAIN JLPT_LEVELS : JLPT_LEVELS[i] = level

MIN_TARGET_WORDS ==
  [l \in Range(JLPT_LEVELS) |->
     CASE l = "N5" -> <<2, 150>>
       [] l = "N4" -> <<3, 120>>
       [] l = "N3" -> <<4, 100>>
       [] l = "N2" -> <<5, 80>>
       [] l = "N1" -> <<6, 80>>]

\* None (no limit) is the empty tuple
MAX_ABOVE_WORDS ==
  [l \in Range(JLPT_LEVELS) |->
     CASE l = "N5" -> <<5, 100>>
       [] l = "N4" -> <<10, 50>>
       [] l = "N3" -> <<10, 50>>
       [] l = "N2" -> <<10, 50>>
       [] l = "N1" -> <<>>]

UNKNOWN_WORDS_BASE == 8
UNKNOWN_WORDS_SCALE == 100
\* target_level_words[:20] and the two other example lists
EXAMPLE_LIMIT == 20

IGNORED_WORDS ==
  {
    <<12399>>, <<12364>>, <<12434>>, <<12395>>, <<12391>>, <<12392>>,
    <<12418>>, <<12398>>, <<12408>>, <<12363, 12425>>, <<12414, 12391>>,
    <<12424, 12426>>, <<12420>>, <<12363>>, <<12397>>, <<12424>>, <<12394>>,
    <<12431>>, <<12373>>, <<12382>>, <<12380>>, <<12369>>, <<12371, 12381>>,
    <<12384, 12369>>, <<12375, 12363>>, <<12400, 12363, 12426>>, <<12290>>,
    <<12289>>, <<65281>>, <<65311>>, <<12300>>, <<12301>>, <<12302>>,
    <<12303>>, <<8230>>, <<12540>>, <<12539>>, <<19968>>, <<20108>>,
    <<19977>>, <<22235>>, <<20116>>, <<20845>>, <<19971>>, <<20843>>,
    <<20061>>, <<21313>>, <<30334>>, <<21315>>, <<19975>>, <<12377, 12427>>,
    <<12356, 12427>>, <<12354, 12427>>, <<12394, 12427>>,
    <<12391, 12365, 12427>>, <<12367, 12427>>, <<12356, 12367>>,
    <<12415, 12427>>, <<12367, 12428, 12427>>, <<12418, 12425, 12358>>,
    <<12371, 12398>>, <<12381, 12398>>, <<12354, 12398>>, <<12393, 12398>>,
    <<12371, 12428>>, <<12381, 12428>>, <<12354, 12428>>, <<12393, 12428>>,
    <<12371, 12371>>, <<12381, 12371>>, <<12354, 12381, 12371>>,
    <<12393, 12371>>, <<12371, 12358>>, <<12381, 12358>>, <<12354, 12354>>,
    <<12393, 12358>>, <<12391, 12377>>, <<12414, 12377>>, <<12383>>,
    <<12390>>, <<12394, 12356>>, <<12400>>, <<12358>>, <<12424, 12358>>,
    <<12384>>, <<12384, 12429, 12358>>, <<12391, 12375, 12423, 12358>>,
    <<12428, 12427>>, <<12425, 12428, 12427>>, <<12379, 12427>>,
    <<12373, 12379, 12427>>, <<12383, 12356>>, <<12411, 12375, 12356>>,
    <<12396>>, <<12435>>, <<12390, 12356, 12427>>, <<12390, 12354, 12427>>,
    <<12390, 12362, 12367>>, <<12390, 12375, 12414, 12358>>,
    <<12390, 12356, 12367>>, <<12390, 12367, 12427>>,
    <<12375, 12414, 12358>>, <<12375>>, <<12394, 12364, 12425>>,
    <<12383, 12426>>, <<12388, 12388>>, <<12398, 12391>>, <<12398, 12395>>,
    <<12398, 12399>>, <<12398, 12364>>, <<12398, 12434>>,
    <<12395, 12388, 12356, 12390>>, <<12392, 12375, 12390>>,
    <<12395, 12424, 12387, 12390>>, <<12395, 12362, 12356, 12390>>,
    <<12392, 12356, 12358>>, <<12392, 12356, 12358, 12371, 12392>>,
    <<12392, 12356, 12358, 12398, 12399>>, <<12392, 12390, 12418>>,
    <<12377, 12372, 12367>>, <<26412, 24403, 12395>>, <<12418, 12358>>,
    <<12414, 12384>>, <<12418, 12387, 12392>>,
    <<12385, 12423, 12387, 12392>>, <<12377, 12368>>,
    <<12378, 12387, 12392>>, <<12383, 12367, 12373, 12435>>,
    <<23569, 12375>>, <<20840, 28982>>, <<32118, 23550>>,
    <<12365, 12387, 12392>>, <<12383, 12406, 12435>>,
    <<12420, 12387, 12401, 12426>>, <<12420, 12399, 12426>>,
    <<12381, 12375, 12390>>, <<12391, 12418>>, <<12375, 12363, 12375>>,
    <<12384, 12363, 12425>>, <<12369, 12428, 12393>>, <<12369, 12393>>,
    <<12414, 12383, 12399>>, <<12354, 12427, 12356, 12399>>, <<26178>>,
    <<26085>>, <<24180>>, <<26376>>, <<36913>>, <<20998>>, <<31186>>,
    <<22238>>, <<24230>>, <<30058>>, <<30446>>, <<26178, 38291>>,
    <<20170, 26085>>, <<26126, 26085>>, <<26152, 26085>>, <<27598, 26085>>,
    <<27598, 36913>>, <<27598, 26376>>, <<27598, 24180>>, <<20154>>,
    <<29289>>, <<20107>>, <<25152>>, <<26041>>, <<21069>>, <<24460>>,
    <<20013>>, <<19978>>, <<19979>>, <<22806>>, <<20869>>,
    <<12368, 12425, 12356>>, <<12367, 12425, 12356>>, <<12371, 12429>>,
    <<38915>>, <<12383, 12417>>, <<12414, 12414>>, <<12411, 12358>>
  }


(***************************************************************************)
(* VocabularyValidator: loading the word lists                             *)
(***************************************************************************)
\* str.isspace() of one character
IsSpace(c) ==
  \/ c \in {9, 10, 11, 12, 13, 28, 29, 30, 31, 32, 133, 160, 5760}
  \/ (8192 <= c /\ c <= 8202)
  \/ c \in {8232, 8233, 8239, 8287, 12288}

RECURSIVE LStrip(_)
LStrip(s) == IF s # <<>> /\ IsSpace(Head(s)) THEN LStrip(Tail(s)) ELSE s

RECURSIVE RStrip(_)
RStrip(s) ==
  IF s # <<>> /\ IsSpace(s[Len(s)]) THEN RStrip(SubSeq(s, 1, Len(s) - 1)) ELSE s

\* line.strip()
Strip(s) == RStrip(LStrip(s))

\* {line.strip() for line in f if line.strip()}
FileWords(lines) ==
  {Strip(lines[i]) : i \in {j \in DOMAIN lines : Strip(lines[j]) # <<>>}}

\* the first loop of _load_word_lists: one set per level, empty when the
\* level's file is missing
LoadLevelSpecific(files) ==
  [l \in Range(JLPT_LEVELS) |->
     IF files[l].exists THEN FileWords(files[l].lines) ELSE {}]

\* the second loop: cumulative = cumulative | level_specific.get(level, set())
RECURSIVE Cumulative(_, _)
Cumulative(ls, i) ==
  IF i = 0 THEN {} ELSE Cumulative(ls, i - 1) \cup DictGet(ls, JLPT_LEVELS[i], {})

BuildWordLists(ls) ==
  [l \in Range(JLPT_LEVELS) |-> Cumulative(ls, LevelIndex(l))]

\* VocabularyValidator.__init__ then _load_word_lists: both dicts stay empty
\* when the data directory is missing
_load_word_lists ==
  /\ vpc = "new"
  /\ IF ~data_dir_exists
       THEN /\ level_specific' = EmptyDict
            /\ word_lists' = EmptyDict
       ELSE /\ level_specific' = LoadLevelSpecific(level_files)
            /\ word_lists' = BuildWordLists(LoadLevelSpecific(level_files))
  /\ vpc' = "idle"
  /\ UNCHANGED <<data_dir_exists, level_files, call, result, previous, tvars, svars, lvars>>

(***************************************************************************)
(* VocabularyValidator.get_word_level                                      *)
(***************************************************************************)
\* variant: the scan starts one level too late
RECURSIVE ScanLevelsAfterFirst(_, _, _)
ScanLevelsAfterFirst(ls, word, i) ==
  IF i + 1 > Len(JLPT_LEVELS) THEN NoLevel
  ELSE IF word \in DictGet(ls, JLPT_LEVELS[i + 1], {}) THEN JLPT_LEVELS[i + 1]
  ELSE ScanLevelsAfterFirst(ls, word, i + 1)

RECURSIVE ScanLevels(_, _, _)
ScanLevels(ls, word, i) ==
  IF i > Len(JLPT_LEVELS) THEN NoLevel
  ELSE IF word \in DictGet(ls, JLPT_LEVELS[i], {}) THEN JLPT_LEVELS[i]
  ELSE ScanLevels(ls, word, i + 1)

\* variant: the hardest level holding the word is reported
get_word_level_hardest_first(word) ==
  LET holding == {i \in DOMAIN JLPT_LEVELS :
                    word \in DictGet(level_specific, JLPT_LEVELS[i], {})}
  IN  IF holding = {} THEN NoLevel
      ELSE JLPT_LEVELS[CHOOSE i \in holding : \A j \in holding : j <= i]

get_word_level(word) == ScanLevels(level_specific, word, 1)

(***************************************************************************)
(* VocabularyValidator.validate_tokens                                     *)
(***************************************************************************)
\* readability_score is kept as the exact fraction num / den
Fraction(n, d) == [num |-> n, den |-> d]

\* a token that is not a dict: an object with attributes
ObjectToken(attributes) == [attrs |-> attributes]
\* isinstance(token, dict)
IsDict(token) == "attrs" \notin DOMAIN token

\* variant: only baseForm is read
TokenWordBaseFormOnly(token) ==
  LET fields == IF IsDict(token) THEN token ELSE token.attrs
  IN  IF Truthy(DictGet(fields, "baseForm", None)) THEN fields["baseForm"] ELSE <<>>

\* word = token.get("baseForm") or token.get("surface", "") for a dict,
\* getattr(token, "baseForm", None) or getattr(token, "surface", "") otherwise
TokenWord(token) ==
  IF IsDict(token)
    THEN IF Truthy(DictGet(token, "baseForm", None)) THEN token["baseForm"]
         ELSE DictGet(token, "surface", <<>>)
    ELSE IF Truthy(DictGet(token.attrs, "baseForm", None)) THEN token.attrs["baseForm"]
         ELSE DictGet(token.attrs, "surface", <<>>)

\* words_to_check: if word and word not in IGNORED_WORDS
WordsToCheck(tokens) ==
  {w \in {TokenWord(tokens[i]) : i \in DOMAIN tokens} :
     Truthy(w) /\ w \notin IGNORED_WORDS}

BucketKeys == Range(JLPT_LEVELS) \cup {"unknown", "katakana"}

\* words_by_level and the four word lists before the loop of lines 438-466.
\* The lists are kept as sets: they are filled in the iteration order of a
\* Python set, which is not fixed.
NoWordsSeen ==
  [words_by_level |-> [k \in BucketKeys |-> {}],
   target_level_words |-> {}, above_level_words |-> {},
   below_level_words |-> {}, unknown_words |-> {}]

\* variant: katakana words are categorised like every other word
CategorizeWordNoKatakanaRule(acc, word, target_level_idx) ==
  LET word_level == get_word_level(word)
  IN  IF word_level = NoLevel
        THEN [acc EXCEPT !.words_by_level["unknown"] = @ \cup {word},
                         !.unknown_words = @ \cup {word}]
        ELSE LET word_level_idx == LevelIndex(word_level)
                 counted == [acc EXCEPT !.words_by_level[word_level] = @ \cup {word}]
             IN  IF word_level_idx = target_level_idx
                   THEN [counted EXCEPT !.target_level_words = @ \cup {word}]
                 ELSE IF word_level_idx < target_level_idx
                   THEN [counted EXCEPT !.below_level_words = @ \cup {word}]
                 ELSE [counted EXCEPT !.above_level_words = @ \cup {word}]

\* variant: a word above the target level is listed as unknown as well
CategorizeWordAboveAlsoUnknown(acc, word, target_level_idx) ==
  LET is_katakana == KATAKANA_PATTERN(word)
      word_level == get_word_level(word)
  IN  IF word_level = NoLevel
        THEN IF is_katakana
               THEN [acc EXCEPT !.words_by_level["katakana"] = @ \cup {word}]
               ELSE [acc EXCEPT !.words_by_level["unknown"] = @ \cup {word},
                                !.unknown_words = @ \cup {word}]
        ELSE LET word_level_idx == LevelIndex(word_level)
                 counted == [acc EXCEPT !.words_by_level[word_level] = @ \cup {word}]
             IN  IF word_level_idx = target_level_idx
                   THEN [counted EXCEPT !.target_level_words = @ \cup {word}]
                 ELSE IF word_level_idx < target_level_idx
                   THEN [counted EXCEPT !.below_level_words = @ \cup {word}]
                 ELSE IF ~is_katakana
                   THEN [counted EXCEPT !.above_level_words = @ \cup {word},
                                        !.unknown_words = @ \cup {word}]
                 ELSE counted

\* one pass of the loop body for `word`
CategorizeWord(acc, word, target_level_idx) ==
  LET is_katakana == KATAKANA_PATTERN(word)
      word_level == get_word_level(word)
  IN  IF word_level = NoLevel
        THEN IF is_katakana
               THEN [acc EXCEPT !.words_by_level["katakana"] = @ \cup {word}]
               ELSE [acc EXCEPT !.words_by_level["unknown"] = @ \cup {word},
                                !.unknown_words = @ \cup {word}]
        ELSE LET word_level_idx == LevelIndex(word_level)
                 counted == [acc EXCEPT !.words_by_level[word_level] = @ \cup {word}]
             IN  IF word_level_idx = target_level_idx
                   THEN [counted EXCEPT !.target_level_words = @ \cup {word}]
                 ELSE IF word_level_idx < target_level_idx
                   THEN [counted EXCEPT !.below_level_words = @ \cup {word}]
                 ELSE IF ~is_katakana
                   THEN [counted EXCEPT !.above_level_words = @ \cup {word}]
                 ELSE counted

\* for word in words_to_check: ...
RECURSIVE Categorize(_, _, _)
Categorize(words, target_level_idx, acc) ==
  IF words = {} THEN acc
  ELSE LET word == CHOOSE w \in words : TRUE
       IN  Categorize(words \ {word}, target_level_idx,
                      CategorizeWord(acc, word, target_level_idx))

NoIssues == <<>>

InvalidLevelResult(target_level) ==
  [total_tokens |-> 0, unique_words |-> 0, words_by_level |-> EmptyDict,
   target_level_count |-> 0, above_level_count |-> 0, unknown_count |-> 0,
   min_target_threshold |-> 0, max_above_threshold |-> 0,
   max_unknown_threshold |-> 0,
   has_learning_value |-> FALSE, not_too_hard |-> FALSE,
   not_too_obscure |-> FALSE, passed |-> FALSE,
   readability_score |-> Fraction(0, 1), target_level |-> target_level,
   message |-> [text |-> "Invalid JLPT level: ", level |-> target_level,
                issues |-> NoIssues],
   target_level_words |-> {}, above_level_words |-> {}, unknown_words |-> {}]

NotLoadedResult(target_level) ==
  [total_tokens |-> 0, unique_words |-> 0, words_by_level |-> EmptyDict,
   target_level_count |-> 0, above_level_count |-> 0, unknown_count |-> 0,
   min_target_threshold |-> 0, max_above_threshold |-> 0,
   max_unknown_threshold |-> 0,
   has_learning_value |-> TRUE, not_too_hard |-> TRUE,
   not_too_obscure |-> TRUE, passed |-> TRUE,
   readability_score |-> Fraction(1, 1), target_level |-> target_level,
   message |-> [text |-> "Validation skipped - word lists not loaded",
                level |-> target_level, issues |-> NoIssues],
   target_level_words |-> {}, above_level_words |-> {}, unknown_words |-> {}]

\* variant: the raw token count is not reported
NoWordsResultZeroTokens(total_tokens, target_level) ==
  [total_tokens |-> 0, unique_words |-> 0,
   words_by_level |-> EmptyDict,
   target_level_count |-> 0, above_level_count |-> 0, unknown_count |-> 0,
   min_target_threshold |-> 0, max_above_threshold |-> 0,
   max_unknown_threshold |-> 0,
   has_learning_value |-> TRUE, not_too_hard |-> TRUE,
   not_too_obscure |-> TRUE, passed |-> TRUE,
   readability_score |-> Fraction(1, 1), target_level |-> target_level,
   message |-> [text |-> "No words to validate", level |-> target_level,
                issues |-> NoIssues],
   target_level_words |-> {}, above_level_words |-> {}, unknown_words |-> {}]

NoWordsResult(total_tokens, target_level) ==
  [total_tokens |-> total_tokens, unique_words |-> 0,
   words_by_level |-> EmptyDict,
   target_level_count |-> 0, above_level_count |-> 0, unknown_count |-> 0,
   min_target_threshold |-> 0, max_above_threshold |-> 0,
   max_unknown_threshold |-> 0,
   has_learning_value |-> TRUE, not_too_hard |-> TRUE,
   not_too_obscure |-> TRUE, passed |-> TRUE,
   readability_score |-> Fraction(1, 1), target_level |-> target_level,
   message |-> [text |-> "No words to validate", level |-> target_level,
                issues |-> NoIssues],
   target_level_words |-> {}, above_level_words |-> {}, unknown_words |-> {}]

\* variant: the threshold has no base, only the part that grows
MinTargetThresholdNoBase(target_level, total_tokens) ==
  total_tokens \div MIN_TARGET_WORDS[target_level][2]

\* variant: the remainder of the division is added, not its quotient
MinTargetThresholdRemainder(target_level, total_tokens) ==
  MIN_TARGET_WORDS[target_level][1] + (total_tokens % MIN_TARGET_WORDS[target_level][2])

\* min_target_threshold = base + (total_tokens // scale)
MinTargetThreshold(target_level, total_tokens) ==
  MIN_TARGET_WORDS[target_level][1] + (total_tokens \div MIN_TARGET_WORDS[target_level][2])

\* max_above_threshold, -1 when MAX_ABOVE_WORDS[target_level] is None
MaxAboveThreshold(target_level, total_tokens) ==
  IF MAX_ABOVE_WORDS[target_level] # <<>>
    THEN MAX_ABOVE_WORDS[target_level][1] + (total_tokens \div MAX_ABOVE_WORDS[target_level][2])
    ELSE -1

\* variant: the unknown-word limit does not grow with the story
MaxUnknownThresholdUnscaled(total_tokens) == UNKNOWN_WORDS_BASE

MaxUnknownThreshold(total_tokens) ==
  UNKNOWN_WORDS_BASE + (total_tokens \div UNKNOWN_WORDS_SCALE)

\* variant: the sentinel -1 is compared like a limit
NotTooHardSentinelCompared(above_level_count, max_above_threshold) ==
  above_level_count <= max_above_threshold

\* not_too_hard: no limit when the threshold is the sentinel -1
NotTooHard(above_level_count, max_above_threshold) ==
  IF max_above_threshold = -1 THEN TRUE
  ELSE above_level_count <= max_above_threshold

\* variant: the obscurity check does not count
PassedIgnoringObscure(has_learning_value, not_too_hard, not_too_obscure) ==
  has_learning_value /\ not_too_hard

\* passed = has_learning_value and not_too_hard and not_too_obscure
Passed(has_learning_value, not_too_hard, not_too_obscure) ==
  has_learning_value /\ not_too_hard /\ not_too_obscure

\* the message of a scored result
ScoredMessage(target_level, passed, hlv, nth, nto, tc, ac, uc, mint, maxa, maxu) ==
  IF passed
    THEN [text |-> "Story vocabulary is appropriate for ", level |-> target_level,
          issues |-> NoIssues]
    ELSE [text |-> "Story failed validation: ", level |-> target_level,
          issues |->
            (IF ~hlv THEN <<[issue |-> "not enough target words", count |-> tc,
                             threshold |-> mint]>> ELSE <<>>)
            \o (IF ~nth THEN <<[issue |-> "too many above-level words", count |-> ac,
                                threshold |-> maxa]>> ELSE <<>>)
            \o (IF ~nto THEN <<[issue |-> "too many unknown words", count |-> uc,
                                threshold |-> maxu]>> ELSE <<>>)]

\* the normal scoring path (lines 428-543).  The three example lists are
\* the first 20 words in the iteration order of a Python set, which is not
\* fixed: any 20 of the words may be kept.
ScoredResults(tokens, target_level, words_to_check) ==
  LET target_level_idx == LevelIndex(target_level)
      total_tokens == Len(tokens)
      seen == Categorize(words_to_check, target_level_idx, NoWordsSeen)
      target_level_words == seen.target_level_words
      above_level_words == seen.above_level_words
      below_level_words == seen.below_level_words
      unknown_words == seen.unknown_words
      words_by_level_counts ==
        [k \in BucketKeys |-> Cardinality(seen.words_by_level[k])]
      min_target_threshold == MinTargetThreshold(target_level, total_tokens)
      max_above_threshold == MaxAboveThreshold(target_level, total_tokens)
      max_unknown_threshold == MaxUnknownThreshold(total_tokens)
      target_level_count == Cardinality(target_level_words)
      above_level_count == Cardinality(above_level_words)
      unknown_count == Cardinality(unknown_words)
      unique_words == Cardinality(words_to_check)
      has_learning_value == target_level_count >= min_target_threshold
      not_too_hard == NotTooHard(above_level_count, max_above_threshold)
      not_too_obscure == unknown_count <= max_unknown_threshold
      passed == Passed(has_learning_value, not_too_hard, not_too_obscure)
      readable_count == Cardinality(target_level_words) + Cardinality(below_level_words)
      readability_score ==
        IF unique_words > 0 THEN Fraction(readable_count, unique_words)
        ELSE Fraction(1, 1)
      message == ScoredMessage(target_level, passed, has_learning_value,
                   not_too_hard, not_too_obscure, target_level_count,
                   above_level_count, unknown_count, min_target_threshold,
                   max_above_threshold, max_unknown_threshold)
  IN  {[total_tokens |-> total_tokens, unique_words |-> unique_words,
        words_by_level |-> words_by_level_counts,
        target_level_count |-> target_level_count,
        above_level_count |-> above_level_count,
        unknown_count |-> unknown_count,
        min_target_threshold |-> min_target_threshold,
        max_above_threshold |-> max_above_threshold,
        max_unknown_threshold |-> max_unknown_threshold,
        has_learning_value |-> has_learning_value,
        not_too_hard |-> not_too_hard,
        not_too_obscure |-> not_too_obscure,
        passed |-> passed,
        readability_score |-> readability_score,
        target_level |-> target_level,
        message |-> message,
        target_level_words |-> tw, above_level_words |-> aw,
        unknown_words |-> uw] :
          tw \in KSubsets(target_level_words, EXAMPLE_LIMIT),
          aw \in KSubsets(above_level_words, EXAMPLE_LIMIT),
          uw \in KSubsets(unknown_words, EXAMPLE_LIMIT)}

\* variant: the not-loaded check comes before the level check
validate_tokens_loaded_check_first(tokens, target_level) ==
  IF DOMAIN word_lists = {}
    THEN {NotLoadedResult(target_level)}
  ELSE IF target_level \notin Range(JLPT_LEVELS)
    THEN {InvalidLevelResult(target_level)}
  ELSE LET words_to_check == WordsToCheck(tokens)
       IN  IF words_to_check = {}
             THEN {NoWordsResult(Len(tokens), target_level)}
             ELSE ScoredResults(tokens, target_level, words_to_check)

\* validate_tokens(tokens, target_level): the set of results the call can
\* return (one, up to the choice of example words)
validate_tokens(tokens, target_level) ==
  IF target_level \notin Range(JLPT_LEVELS)
    THEN {InvalidLevelResult(target_level)}
  ELSE IF DOMAIN word_lists = {}
    THEN {NotLoadedResult(target_level)}
  ELSE LET words_to_check == WordsToCheck(tokens)
       IN  IF words_to_check = {}
             THEN {NoWordsResult(Len(tokens), target_level)}
             ELSE ScoredResults(tokens, target_level, words_to_check)

(***************************************************************************)
(* Inputs of the validator: word-list files and token lists                *)
(***************************************************************************)
\* words per pool of the sample vocabulary
MaxPerPool == 11
\* distinct tokens of a sample story before repetition: one more than an
\* example list keeps, so that the [:20] slices cut
MaxWords == EXAMPLE_LIMIT + 1
\* longest sample story, in tokens
MaxTokens == 2000

\* make_tokens of the tests: [{"surface": w, "baseForm": w} for w in words]
make_token(w) == [surface |-> w, baseForm |-> w]

\* Python list * n
RepeatList(s, n) == [i \in 1..(Len(s) * n) |-> s[((i - 1) % Len(s)) + 1]]

\* the j-th sample word meant for a level's file: one kanji, none of them in
\* IGNORED_WORDS
LevelWord(l, j) == <<20480 + 16 * LevelIndex(l) + j>>
\* a kanji word that no file lists
UnknownWord(j) == <<24576 + j>>
\* katakana loanwords: terebi, kategorii, pokemon, koohii
Terebi == <<12486, 12524, 12499>>
Kategorii == <<12459, 12486, 12468, 12522, 12540>>
Pokemon == <<12509, 12465, 12514, 12531>>
Koohii == <<12467, 12540, 12498, 12540>>

PoolIds == <<"N5", "N4", "N3", "N2", "N1", "unknown", "katakana", "other">>

Pool(p) ==
  CASE p \in Range(JLPT_LEVELS) -> [j \in 1..MaxPerPool |-> make_token(LevelWord(p, j))]
    [] p = "unknown" -> [j \in 1..MaxPerPool |-> make_token(UnknownWord(j))]
    [] p = "katakana" -> <<make_token(Terebi), make_token(Kategorii),
                           make_token(Pokemon), make_token(Koohii)>>
    [] p = "other" ->
         << make_token(<<12399>>),                            \* particle ha
            make_token(<<12290>>),                            \* full stop
            [surface |-> <<12375>>, baseForm |-> <<12377, 12427>>],  \* shi / suru
            [surface |-> <<>>, baseForm |-> None],            \* empty token
            [surface |-> LevelWord("N3", 1), baseForm |-> None],
            [surface |-> UnknownWord(1), baseForm |-> LevelWord("N4", 1)],
            [surface |-> <<12399>>, baseForm |-> <<>>],
            [surface |-> LevelWord("N3", 2)],                 \* no baseForm key
            ObjectToken([surface |-> LevelWord("N2", 1)]),    \* no baseForm attribute
            ObjectToken([surface |-> UnknownWord(2), baseForm |-> LevelWord("N4", 2)]) >>

\* a sample story: the first k tokens of pool p, then the first m of a later
\* pool q, the whole repeated reps times; repeated stories use one pool
RepChoices == {1, 20, 1000}

StoryDescs ==
  {d \in [p : DOMAIN PoolIds, k : 0..MaxPerPool, q : DOMAIN PoolIds,
          m : 0..MaxPerPool, reps : RepChoices] :
     /\ d.k <= Len(Pool(PoolIds[d.p]))
     /\ d.m <= Len(Pool(PoolIds[d.q]))
     /\ d.k + d.m <= MaxWords
     /\ (d.k + d.m) * d.reps <= MaxTokens
     /\ (d.k = 0 => d.p = 1 /\ d.m = 0 /\ d.reps = 1)
     /\ (d.m = 0 => d.q = d.p)
     /\ (d.m > 0 => d.p < d.q /\ d.reps = 1)}

StoryTokens(d) ==
  IF d.k + d.m = 0 THEN <<>>
  ELSE RepeatList(Take(Pool(PoolIds[d.p]), d.k) \o Take(Pool(PoolIds[d.q]), d.m), d.reps)

\* target levels asked for: the five levels and two strings that are not levels
LevelInputs == Range(JLPT_LEVELS) \cup {"N6", "n3"}

\* words looked up
WordInputs ==
  UNION {{TokenWord(Pool(PoolIds[p])[j]) : j \in DOMAIN Pool(PoolIds[p])} : p \in DOMAIN PoolIds}

\* the lines of a word-list file: a blank line, the first word padded with
\* blanks, one word per line
AsLines(ws) ==
  <<<<10>>>> \o [i \in DOMAIN ws |->
                  IF i = 1 THEN <<32>> \o ws[i] \o <<32, 10>> ELSE ws[i] \o <<10>>]

StandardWords(l) ==
  [j \in 1..MaxPerPool |-> LevelWord(l, j)]
    \o (IF l = "N5" THEN <<Terebi>> ELSE IF l = "N1" THEN <<Kategorii>> ELSE <<>>)

\* words that a harder or an easier file lists again
OverlapWords(l) ==
  CASE l = "N3" -> <<LevelWord("N5", 1), LevelWord("N5", 2)>>
    [] l = "N1" -> <<LevelWord("N4", 1), Terebi>>
    [] l = "N5" -> <<LevelWord("N2", 1)>>
    [] OTHER -> <<>>

FileConfigs == {"standard", "overlap", "partial", "nofiles"}

LevelFiles(cfg) ==
  [l \in Range(JLPT_LEVELS) |->
     CASE cfg = "standard" -> [exists |-> TRUE, lines |-> AsLines(StandardWords(l))]
       [] cfg = "overlap" ->
            [exists |-> TRUE, lines |-> AsLines(StandardWords(l) \o OverlapWords(l))]
       [] cfg = "partial" ->
            IF l = "N2" THEN [exists |-> FALSE, lines |-> <<>>]
            ELSE [exists |-> TRUE, lines |-> AsLines(StandardWords(l))]
       [] cfg = "nofiles" -> [exists |-> FALSE, lines |-> <<>>]]

(***************************************************************************)
(* The validator driven by its callers                                     *)
(***************************************************************************)
NoCall == [op |-> "none", tokens |-> <<>>, target_level |-> NoLevel, word |-> None]
NoResult == [op |-> "none"]
NoPrevious == [call |-> NoCall, result |-> NoResult]

\* the tokenizer and the generation loop are not exercised
TokenizerUnused == tpc = "unused" /\ input_text = <<>> /\ tagged = <<>> /\ tokenized = <<>>
LoopUnused ==
  /\ lpc = "unused" /\ max_attempts = 0 /\ tokenize = FALSE /\ attempt = 0
  /\ heap = <<>> /\ story = 0 /\ best_story = 0
  /\ best_validation = NoResult /\ outcome = NoResult
  /\ generator = "unused" /\ jlpt_level = NoLevel /\ feedback = NoResult
  /\ trace = <<>> /\ candidates = <<>>

\* the callers of get_validator and get_tokenizer_service are not modelled
SingletonsUnused ==
  /\ _validator = 0 /\ _tokenizer_service = 0
  /\ constructed = [validator |-> 0, tokenizer |-> 0]
  /\ received = <<>>
  /\ position = <<>>

InitValidator ==
  /\ data_dir_exists \in BOOLEAN
  /\ level_files \in {LevelFiles(cfg) : cfg \in FileConfigs}
  /\ (~data_dir_exists => level_files = LevelFiles("nofiles"))
  /\ word_lists = EmptyDict
  /\ level_specific = EmptyDict
  /\ vpc = "new"
  /\ call = NoCall
  /\ result = NoResult
  /\ previous = NoPrevious
  /\ TokenizerUnused
  /\ SingletonsUnused
  /\ LoopUnused

ValidateTokensCall ==
  /\ vpc = "idle"
  /\ \E d \in StoryDescs, lvl \in LevelInputs :
       LET tokens == StoryTokens(d)
       IN  \E r \in validate_tokens(tokens, lvl) :
             /\ call' = [op |-> "validate_tokens", tokens |-> tokens,
                         target_level |-> lvl, word |-> None]
             /\ result' = r
  /\ vpc' = "returned"
  /\ UNCHANGED <<data_dir_exists, level_files, word_lists, level_specific, previous,
                 tvars, svars, lvars>>

GetWordLevelCall ==
  /\ vpc = "idle"
  /\ \E w \in WordInputs :
       /\ call' = [op |-> "get_word_level", tokens |-> <<>>,
                   target_level |-> NoLevel, word |-> w]
       /\ result' = [op |-> "get_word_level", level |-> get_word_level(w)]
  /\ vpc' = "returned"
  /\ UNCHANGED <<data_dir_exists, level_files, word_lists, level_specific, previous,
                 tvars, svars, lvars>>

\* the caller takes the value; the validator is ready for the next call
ReturnToCaller ==
  /\ vpc = "returned"
  /\ vpc' = "idle"
  /\ call' = NoCall
  /\ result' = NoResult
  /\ UNCHANGED <<data_dir_exists, level_files, word_lists, level_specific, previous,
                 tvars, svars, lvars>>

\* stories of one token repeated: a word of the N5 file, a word of no file,
\* an ignored particle; the lengths sit on both sides of the steps of the
\* thresholds and hold pairs n, 2n
SampleLengths ==
  {n \in {1, 2, 50, 79, 80, 99, 100, 150, 160, 200, 300, 1000, 2000} : n <= MaxTokens}
SampleStories ==
  {RepeatList(<<make_token(w)>>, n) :
     w \in {LevelWord("N5", 1), UnknownWord(1), <<12399>>}, n \in SampleLengths}

\* two calls in a row for one target level; the first stays in `previous`
InitThresholds ==
  /\ data_dir_exists \in BOOLEAN
  /\ level_files = (IF data_dir_exists THEN LevelFiles("standard") ELSE LevelFiles("nofiles"))
  /\ word_lists = EmptyDict
  /\ level_specific = EmptyDict
  /\ vpc = "new"
  /\ call = NoCall
  /\ result = NoResult
  /\ previous = NoPrevious
  /\ TokenizerUnused
  /\ SingletonsUnused
  /\ LoopUnused

ValidateSampleCall ==
  /\ vpc = "idle"
  /\ \E tokens \in SampleStories, lvl \in Range(JLPT_LEVELS) :
       /\ previous # NoPrevious => lvl = previous.call.target_level
       /\ \E r \in validate_tokens(tokens, lvl) :
             /\ call' = [op |-> "validate_tokens", tokens |-> tokens,
                         target_level |-> lvl, word |-> None]
             /\ result' = r
  /\ vpc' = "returned"
  /\ UNCHANGED <<data_dir_exists, level_files, word_lists, level_specific, previous,
                 tvars, svars, lvars>>

\* the caller keeps the first result and calls again
KeepResult ==
  /\ vpc = "returned"
  /\ previous = NoPrevious
  /\ previous' = [call |-> call, result |-> result]
  /\ vpc' = "idle"
  /\ call' = NoCall
  /\ result' = NoResult
  /\ UNCHANGED <<data_dir_exists, level_files, word_lists, level_specific, tvars, svars, lvars>>

NextThresholds ==
  \/ _load_word_lists
  \/ ValidateSampleCall
  \/ KeepResult

SpecThresholds == InitThresholds /\ [][NextThresholds]_vars

NextValidator ==
  \/ _load_word_lists
  \/ ValidateTokensCall
  \/ GetWordLevelCall
  \/ ReturnToCaller

SpecValidator == InitValidator /\ [][NextValidator]_vars

(***************************************************************************)
(* Properties of the validator (checked under SpecValidator)               *)
(***************************************************************************)
ValidateReturned == vpc = "returned" /\ call.op = "validate_tokens"
LookupReturned == vpc = "returned" /\ call.op = "get_word_level"
ValidLevel(l) == l \in Range(JLPT_LEVELS)
ListsLoaded == DOMAIN word_lists # {}
\* the levels whose own (non-cumulative) set holds the word
LevelsHolding(word) ==
  {i \in DOMAIN JLPT_LEVELS : word \in DictGet(level_specific, JLPT_LEVELS[i], {})}
\* the smallest element of a non-empty set of numbers
Least(S) == CHOOSE i \in S : \A j \in S : i <= j

\* C1: every result of validate_tokens, on each of its four return paths,
\* has passed = TRUE exactly when has_learning_value, not_too_hard and
\* not_too_obscure are all TRUE.
C1_PassedIffAllThreeChecks ==
  ValidateReturned =>
    (result.passed <=>
       (result.has_learning_value /\ result.not_too_hard /\ result.not_too_obscure))

\* a scored result in which two checks hold, the third fails and the story
\* does not pass
C1_Witness ==
  /\ ValidateReturned
  /\ result.unique_words > 0
  /\ result.has_learning_value /\ result.not_too_hard
  /\ ~result.not_too_obscure
  /\ ~result.passed

\* C5: get_word_level returns the easiest level (N5 < N4 < N3 < N2 < N1)
\* whose level-specific set holds the word, and None exactly when no
\* level-specific set holds it.
C5_EasiestLevelOrNone ==
  LookupReturned =>
    IF LevelsHolding(call.word) = {}
      THEN result.level = NoLevel
      ELSE result.level = JLPT_LEVELS[Least(LevelsHolding(call.word))]

\* a word that two level files list is looked up and reported at the
\* easier of the two
C5_Witness ==
  /\ LookupReturned
  /\ Cardinality(LevelsHolding(call.word)) >= 2
  /\ result.level = "N5"

\* C6 as claimed: a word in level L's specific list is reported at exactly L,
\* whatever the five files contain.
C6_Original_ExactlyL ==
  LookupReturned =>
    \A i \in LevelsHolding(call.word) : result.level = JLPT_LEVELS[i]

\* C6, amended: a word in level L's specific list is never reported at a
\* harder level than L or as unknown, and is reported at exactly L when no
\* easier level's file lists it too.
C6_NeverHarderThanL ==
  LookupReturned =>
    \A i \in LevelsHolding(call.word) :
      /\ result.level # NoLevel
      /\ LevelIndex(result.level) <= i
      /\ ((\A j \in LevelsHolding(call.word) : i <= j) => result.level = JLPT_LEVELS[i])

\* a word of the N3 file that the N5 file lists too is looked up
C6_Witness ==
  /\ LookupReturned
  /\ {1, 3} \subseteq LevelsHolding(call.word)
  /\ result.level # NoLevel

\* the thresholds as the claim states them
ClaimedMinTarget(l, n) ==
  CASE l = "N5" -> 2 + (n \div 150)
    [] l = "N4" -> 3 + (n \div 120)
    [] l = "N3" -> 4 + (n \div 100)
    [] l = "N2" -> 5 + (n \div 80)
    [] l = "N1" -> 6 + (n \div 80)
ClaimedMaxAbove(l, n) ==
  CASE l = "N5" -> 5 + (n \div 100)
    [] l \in {"N4", "N3", "N2"} -> 10 + (n \div 50)
    [] l = "N1" -> -1
ClaimedMaxUnknown(n) == 8 + (n \div 100)

ClaimedThresholds ==
  /\ result.min_target_threshold = ClaimedMinTarget(call.target_level, result.total_tokens)
  /\ result.max_above_threshold = ClaimedMaxAbove(call.target_level, result.total_tokens)
  /\ result.max_unknown_threshold = ClaimedMaxUnknown(result.total_tokens)
  /\ result.total_tokens = Len(call.tokens)
  /\ (call.target_level = "N3" /\ Len(call.tokens) = 100 =>
        /\ result.min_target_threshold = 5
        /\ result.max_above_threshold = 12
        /\ result.max_unknown_threshold = 9)
  /\ (call.target_level = "N3" /\ Len(call.tokens) = 1000 =>
        /\ result.min_target_threshold = 14
        /\ result.max_above_threshold = 30
        /\ result.max_unknown_threshold = 18)

\* C7 as claimed: for every valid level and every token list with a
\* non-empty candidate-word set the thresholds are base + total_tokens div
\* scale with the stated constants.
C7_Original_Thresholds ==
  (ValidateReturned /\ ValidLevel(call.target_level)
     /\ WordsToCheck(call.tokens) # {}) => ClaimedThresholds

\* C7, amended: the same, when the word lists are loaded (the data
\* directory exists); when they are not, all three thresholds are 0.
C7_ThresholdsWhenLoaded ==
  (ValidateReturned /\ ValidLevel(call.target_level)
     /\ WordsToCheck(call.tokens) # {}) =>
    IF ListsLoaded THEN ClaimedThresholds
    ELSE /\ result.min_target_threshold = 0
         /\ result.max_above_threshold = 0
         /\ result.max_unknown_threshold = 0

\* a 1000-token N3 story scored against loaded lists: 14 / 30 / 18
C7_Witness ==
  /\ ValidateReturned /\ ListsLoaded
  /\ call.target_level = "N3" /\ Len(call.tokens) = 1000
  /\ WordsToCheck(call.tokens) # {}
  /\ result.min_target_threshold = 14
  /\ result.max_above_threshold = 30
  /\ result.max_unknown_threshold = 18

\* the classification the claim describes, for the call that returned
Candidates == WordsToCheck(call.tokens)
TargetIdx == LevelIndex(call.target_level)
HeldAt(w) == Least(LevelsHolding(w))
AtTarget == {w \in Candidates : LevelsHolding(w) # {} /\ HeldAt(w) = TargetIdx}
BelowTarget == {w \in Candidates : LevelsHolding(w) # {} /\ HeldAt(w) < TargetIdx}
AboveTarget ==
  {w \in Candidates :
     LevelsHolding(w) # {} /\ HeldAt(w) > TargetIdx /\ ~KATAKANA_PATTERN(w)}
Unknown == {w \in Candidates : LevelsHolding(w) = {} /\ ~KATAKANA_PATTERN(w)}
ExemptKatakana ==
  {w \in Candidates :
     KATAKANA_PATTERN(w) /\ (LevelsHolding(w) = {} \/ HeldAt(w) > TargetIdx)}

ClaimedClassification ==
  /\ result.target_level_count = Cardinality(AtTarget)
  /\ result.above_level_count = Cardinality(AboveTarget)
  /\ result.unknown_count = Cardinality(Unknown)
  \* the words below the level are the rest of the readability numerator
  /\ result.readability_score.num * result.unique_words =
       (Cardinality(AtTarget) + Cardinality(BelowTarget)) * result.readability_score.den
  /\ result.unique_words = Cardinality(Candidates)
  /\ Cardinality(AtTarget) + Cardinality(BelowTarget) + Cardinality(AboveTarget)
       + Cardinality(Unknown) + Cardinality(ExemptKatakana) = Cardinality(Candidates)
  /\ \A w \in result.above_level_words \cup result.unknown_words : ~KATAKANA_PATTERN(w)
  /\ result.above_level_words \subseteq AboveTarget
  /\ result.unknown_words \subseteq Unknown

\* C8 as claimed: for every valid target level and token list each unique
\* candidate word is counted in exactly one of target / below / above /
\* unknown, pure-katakana words being left out of above and unknown.
C8_Original_Classification ==
  (ValidateReturned /\ ValidLevel(call.target_level) /\ Candidates # {}) =>
    ClaimedClassification

\* C8, amended: the same, when the word lists are loaded; when they are not
\* loaded no word is classified and every count is 0.
C8_ClassificationWhenLoaded ==
  (ValidateReturned /\ ValidLevel(call.target_level) /\ Candidates # {}) =>
    IF ListsLoaded THEN ClaimedClassification
    ELSE /\ result.target_level_count = 0
         /\ result.above_level_count = 0
         /\ result.unknown_count = 0
         /\ result.above_level_words = {} /\ result.unknown_words = {}

\* a story with a katakana word of a harder level and a katakana word of no
\* level, counted neither above the level nor unknown
C8_Witness ==
  /\ ValidateReturned /\ ListsLoaded /\ ValidLevel(call.target_level)
  /\ \E w \in ExemptKatakana : LevelsHolding(w) # {}
  /\ \E w \in ExemptKatakana : LevelsHolding(w) = {}
  /\ result.above_level_count = 0 /\ result.unknown_count = 0
  /\ result.target_level_count > 0

\* C9: for a target level outside N5..N1, whatever the tokens and whether
\* or not the word lists are loaded, validate_tokens returns a failing
\* result: all three checks false, every count and threshold 0, and a
\* message naming the level.
C9_InvalidLevelFails ==
  (ValidateReturned /\ ~ValidLevel(call.target_level)) =>
    /\ ~result.passed
    /\ ~result.has_learning_value /\ ~result.not_too_hard /\ ~result.not_too_obscure
    /\ result.total_tokens = 0 /\ result.unique_words = 0
    /\ result.target_level_count = 0 /\ result.above_level_count = 0
    /\ result.unknown_count = 0
    /\ result.min_target_threshold = 0 /\ result.max_above_threshold = 0
    /\ result.max_unknown_threshold = 0
    /\ result.message.text = "Invalid JLPT level: "
    /\ result.message.level = call.target_level

\* an invalid level asked of a validator without word lists, and of an
\* empty token list: the failing result, not the neutral one
C9_Witness ==
  /\ ValidateReturned /\ ~ListsLoaded
  /\ call.target_level = "N6" /\ call.tokens = <<>>
  /\ ~result.passed

NeutralResult ==
  /\ result.passed
  /\ result.has_learning_value /\ result.not_too_hard /\ result.not_too_obscure
  /\ result.min_target_threshold = 0 /\ result.max_above_threshold = 0
  /\ result.max_unknown_threshold = 0
  /\ result.unique_words = 0
  /\ result.readability_score.num = result.readability_score.den

\* C10 as claimed: for every valid level a token list without candidate
\* words gets the neutral passing result with total_tokens the raw length
\* of the list.
C10_Original_NeutralWithRawCount ==
  (ValidateReturned /\ ValidLevel(call.target_level) /\ Candidates = {}) =>
    (NeutralResult /\ result.total_tokens = Len(call.tokens))

\* C10, amended: the result is the neutral passing one; total_tokens is the
\* raw length of the list when the word lists are loaded and 0 when they
\* are not.
C10_NeutralResult ==
  (ValidateReturned /\ ValidLevel(call.target_level) /\ Candidates = {}) =>
    /\ NeutralResult
    /\ result.total_tokens = (IF ListsLoaded THEN Len(call.tokens) ELSE 0)

\* a list of ignored and empty tokens only, validated against loaded lists
C10_Witness ==
  /\ ValidateReturned /\ ListsLoaded /\ ValidLevel(call.target_level)
  /\ Len(call.tokens) >= 3 /\ Candidates = {}
  /\ result.passed /\ result.total_tokens = Len(call.tokens)

(***************************************************************************)
(* tokenizer.py                                                            *)
(***************************************************************************)
\* (first surface, second surface, compound form)
KATAKANA_COMPOUNDS ==
  { << <<12473, 12510, 12540, 12488>>, <<12501, 12457, 12531>>,
       <<12473, 12510, 12540, 12488, 12501, 12457, 12531>> >>,
    << <<12450, 12452, 12473>>, <<12463, 12522, 12540, 12512>>,
       <<12450, 12452, 12473, 12463, 12522, 12540, 12512>> >>,
    << <<12463, 12524, 12472, 12483, 12488>>, <<12459, 12540, 12489>>,
       <<12463, 12524, 12472, 12483, 12488, 12459, 12540, 12489>> >>,
    << <<12471, 12519, 12483, 12500, 12531, 12464>>, <<12475, 12531, 12479, 12540>>,
       <<12471, 12519, 12483, 12500, 12531, 12464, 12475, 12531, 12479, 12540>> >>,
    << <<12467, 12531, 12500, 12517, 12540, 12479>>, <<12540>>,
       <<12467, 12531, 12500, 12517, 12540, 12479, 12540>> >>,
    << <<12456, 12450>>, <<12467, 12531>>,
       <<12456, 12450, 12467, 12531>> >>,
    << <<12522, 12514, 12540, 12488>>, <<12467, 12531, 12488, 12525, 12540, 12523>>,
       <<12522, 12514, 12540, 12488, 12467, 12531, 12488, 12525, 12540, 12523>> >>,
    << <<12477, 12501, 12488>>, <<12454, 12455, 12450>>,
       <<12477, 12501, 12488, 12454, 12455, 12450>> >>,
    << <<12495, 12540, 12489>>, <<12454, 12455, 12450>>,
       <<12495, 12540, 12489, 12454, 12455, 12450>> >> }

\* Python s[a:b] on 0-based offsets: negative offsets count from the end,
\* offsets are clamped to the string
PyOffset(n, len) ==
  IF n < 0 THEN (IF n + len < 0 THEN 0 ELSE n + len)
  ELSE IF n > len THEN len ELSE n
PySlice(s, a, b) ==
  LET lo == PyOffset(a, Len(s))
      hi == PyOffset(b, Len(s))
  IN  IF lo < hi THEN SubSeq(s, lo + 1, hi) ELSE <<>>

\* Python s.find(sub, start) for a non-empty sub: the lowest offset at or
\* after start where sub occurs, or -1
PyFind(s, sub, start) ==
  LET lo == PyOffset(start, Len(s))
      hits == {i \in lo..(Len(s) - Len(sub)) : SubSeq(s, i + 1, i + Len(sub)) = sub}
  IN  IF hits = {} THEN -1 ELSE Least(hits)

\* TokenPart(text=..., reading=...); reading is None when not given
TokenPart(text, reading) == [text |-> text, reading |-> reading]
\* Token.parts = None
NoParts == <<TokenPart(None, None)>>

_is_kanji(char) == 19968 <= char /\ char <= 40959

\* 0x30A1..0x30F6 shifted down by 0x60, every other character kept
_katakana_to_hiragana(text) ==
  IF text = None THEN None
  ELSE [i \in DOMAIN text |->
          IF 12449 <= text[i] /\ text[i] <= 12534 THEN text[i] - 96 ELSE text[i]]

\* the trailing and the leading run of non-kanji characters (lines 171-183)
KanaSuffix(surface) ==
  LET kanji_at == {i \in DOMAIN surface : _is_kanji(surface[i])}
  IN  IF kanji_at = {} THEN surface
      ELSE SubSeq(surface, (CHOOSE i \in kanji_at : \A j \in kanji_at : j <= i) + 1,
                  Len(surface))
KanaPrefix(surface) ==
  LET kanji_at == {i \in DOMAIN surface : _is_kanji(surface[i])}
  IN  IF kanji_at = {} THEN surface
      ELSE SubSeq(surface, 1, Least(kanji_at) - 1)

\* while idx < limit and (not) _is_kanji(surface[idx]): idx += 1
RECURSIVE RunEnd(_, _, _, _)
RunEnd(surface, idx, limit, kanji) ==
  IF idx < limit /\ (_is_kanji(surface[idx + 1]) <=> kanji)
    THEN RunEnd(surface, idx + 1, limit, kanji)
    ELSE idx

\* variant: an anchor found at the reading position itself counts as found
RECURSIVE AlignLoopAnchorAtPosition(_, _, _, _, _, _, _)
AlignLoopAnchorAtPosition(surface, reading, limit, reading_end, surface_idx, kanji_reading_idx, parts) ==
  IF ~(surface_idx < limit) THEN parts
  ELSE IF _is_kanji(surface[surface_idx + 1])
    THEN LET kanji_end == RunEnd(surface, surface_idx, limit, TRUE)
             kanji_text == PySlice(surface, surface_idx, kanji_end)
         IN  IF kanji_end < limit
               THEN LET mid_end == RunEnd(surface, kanji_end, limit, FALSE)
                        mid_kana == PySlice(surface, kanji_end, mid_end)
                        mid_kana_hira == _katakana_to_hiragana(mid_kana)
                        kana_pos == PyFind(reading, mid_kana_hira, kanji_reading_idx)
                        found == kana_pos >= kanji_reading_idx
                        kanji_reading ==
                          IF found THEN PySlice(reading, kanji_reading_idx, kana_pos)
                          ELSE PySlice(reading, kanji_reading_idx, reading_end)
                        next_reading_idx ==
                          IF found THEN kana_pos + Len(mid_kana_hira) ELSE reading_end
                    IN  AlignLoopAnchorAtPosition(surface, reading, limit, reading_end, mid_end,
                                  next_reading_idx,
                                  parts \o <<TokenPart(kanji_text, kanji_reading),
                                             TokenPart(mid_kana, None)>>)
               ELSE AlignLoopAnchorAtPosition(surface, reading, limit, reading_end, kanji_end,
                              kanji_reading_idx,
                              parts \o <<TokenPart(kanji_text,
                                           PySlice(reading, kanji_reading_idx, reading_end))>>)
    ELSE AlignLoopAnchorAtPosition(surface, reading, limit, reading_end, surface_idx + 1,
                   kanji_reading_idx, parts)

\* the while loop of lines 206-241; offsets are 0-based as in the code
RECURSIVE AlignLoop(_, _, _, _, _, _, _)
AlignLoop(surface, reading, limit, reading_end, surface_idx, kanji_reading_idx, parts) ==
  IF ~(surface_idx < limit) THEN parts
  ELSE IF _is_kanji(surface[surface_idx + 1])
    THEN LET kanji_end == RunEnd(surface, surface_idx, limit, TRUE)
             kanji_text == PySlice(surface, surface_idx, kanji_end)
         IN  IF kanji_end < limit
               THEN LET mid_end == RunEnd(surface, kanji_end, limit, FALSE)
                        mid_kana == PySlice(surface, kanji_end, mid_end)
                        mid_kana_hira == _katakana_to_hiragana(mid_kana)
                        kana_pos == PyFind(reading, mid_kana_hira, kanji_reading_idx)
                        found == kana_pos > kanji_reading_idx
                        kanji_reading ==
                          IF found THEN PySlice(reading, kanji_reading_idx, kana_pos)
                          ELSE PySlice(reading, kanji_reading_idx, reading_end)
                        next_reading_idx ==
                          IF found THEN kana_pos + Len(mid_kana_hira) ELSE reading_end
                    IN  AlignLoop(surface, reading, limit, reading_end, mid_end,
                                  next_reading_idx,
                                  parts \o <<TokenPart(kanji_text, kanji_reading),
                                             TokenPart(mid_kana, None)>>)
               ELSE AlignLoop(surface, reading, limit, reading_end, kanji_end,
                              kanji_reading_idx,
                              parts \o <<TokenPart(kanji_text,
                                           PySlice(reading, kanji_reading_idx, reading_end))>>)
    ELSE AlignLoop(surface, reading, limit, reading_end, surface_idx + 1,
                   kanji_reading_idx, parts)

\* variant: the trailing kana part is not appended
_align_reading_to_kanji_without_suffix(surface, reading) ==
  LET surface_kana_suffix == KanaSuffix(surface)
      surface_kana_prefix == KanaPrefix(surface)
      suffix_hira == _katakana_to_hiragana(surface_kana_suffix)
      prefix_hira == _katakana_to_hiragana(surface_kana_prefix)
      reading_end ==
        IF suffix_hira # <<>> THEN Len(reading) - Len(suffix_hira) ELSE Len(reading)
      first_parts ==
        IF surface_kana_prefix # <<>> THEN <<TokenPart(surface_kana_prefix, None)>>
        ELSE <<>>
  IN  AlignLoop(surface, reading, Len(surface) - Len(surface_kana_suffix),
                reading_end, Len(surface_kana_prefix), Len(prefix_hira), first_parts)

\* variant: the kanji reading runs to the end of the reading
_align_reading_to_kanji_whole_reading(surface, reading) ==
  LET surface_kana_suffix == KanaSuffix(surface)
      surface_kana_prefix == KanaPrefix(surface)
      prefix_hira == _katakana_to_hiragana(surface_kana_prefix)
      first_parts ==
        IF surface_kana_prefix # <<>> THEN <<TokenPart(surface_kana_prefix, None)>>
        ELSE <<>>
      middle == AlignLoop(surface, reading, Len(surface) - Len(surface_kana_suffix),
                          Len(reading), Len(surface_kana_prefix), Len(prefix_hira),
                          first_parts)
  IN  IF surface_kana_suffix # <<>>
        THEN middle \o <<TokenPart(surface_kana_suffix, None)>>
        ELSE middle

_align_reading_to_kanji(surface, reading) ==
  LET surface_kana_suffix == KanaSuffix(surface)
      surface_kana_prefix == KanaPrefix(surface)
      suffix_hira == _katakana_to_hiragana(surface_kana_suffix)
      prefix_hira == _katakana_to_hiragana(surface_kana_prefix)
      reading_start == Len(prefix_hira)
      reading_end ==
        IF suffix_hira # <<>> THEN Len(reading) - Len(suffix_hira) ELSE Len(reading)
      first_parts ==
        IF surface_kana_prefix # <<>> THEN <<TokenPart(surface_kana_prefix, None)>>
        ELSE <<>>
      surface_idx == IF surface_kana_prefix # <<>> THEN Len(surface_kana_prefix) ELSE 0
      middle == AlignLoop(surface, reading, Len(surface) - Len(surface_kana_suffix),
                          reading_end, surface_idx, reading_start, first_parts)
  IN  IF surface_kana_suffix # <<>>
        THEN middle \o <<TokenPart(surface_kana_suffix, None)>>
        ELSE middle

\* variant: every surface with a reading gets it, kanji or not
_create_token_parts_reading_always(surface, reading) ==
  IF surface = <<>> THEN NoParts
  ELSE LET all_kanji == \A i \in DOMAIN surface : _is_kanji(surface[i])
       IN  IF all_kanji /\ Truthy(reading) THEN <<TokenPart(surface, reading)>>
           ELSE IF Truthy(reading) /\ (\E i \in DOMAIN surface : _is_kanji(surface[i]))
             THEN _align_reading_to_kanji(surface, reading)
           ELSE <<TokenPart(surface, reading)>>

\* variant: an all-kanji surface is split into one part per character
_create_token_parts_per_character(surface, reading) ==
  IF surface = <<>> THEN NoParts
  ELSE LET has_kanji == \E i \in DOMAIN surface : _is_kanji(surface[i])
           all_kanji == \A i \in DOMAIN surface : _is_kanji(surface[i])
       IN  IF ~has_kanji THEN <<TokenPart(surface, None)>>
           ELSE IF all_kanji /\ Truthy(reading)
             THEN [i \in DOMAIN surface |->
                     TokenPart(<<surface[i]>>, IF i = 1 THEN reading ELSE None)]
           ELSE IF Truthy(reading) THEN _align_reading_to_kanji(surface, reading)
           ELSE <<TokenPart(surface, None)>>

_create_token_parts(surface, reading) ==
  IF surface = <<>> THEN NoParts
  ELSE LET has_kanji == \E i \in DOMAIN surface : _is_kanji(surface[i])
           all_kanji == \A i \in DOMAIN surface : _is_kanji(surface[i])
       IN  IF ~has_kanji THEN <<TokenPart(surface, None)>>
           ELSE IF all_kanji /\ Truthy(reading) THEN <<TokenPart(surface, reading)>>
           ELSE IF Truthy(reading) THEN _align_reading_to_kanji(surface, reading)
           ELSE <<TokenPart(surface, None)>>

\* (IPADIC tag, simplified category), both as text
pos_mapping ==
  { <<<<21517, 35422>>, <<110, 111, 117, 110>>>>,   \* noun
    <<<<21205, 35422>>, <<118, 101, 114, 98>>>>,   \* verb
    <<<<24418, 23481, 35422>>, <<97, 100, 106, 101, 99, 116, 105, 118, 101>>>>,   \* adjective
    <<<<24418, 29366, 35422>>, <<97, 100, 106, 101, 99, 116, 105, 118, 101>>>>,   \* adjective
    <<<<21103, 35422>>, <<97, 100, 118, 101, 114, 98>>>>,   \* adverb
    <<<<21161, 35422>>, <<112, 97, 114, 116, 105, 99, 108, 101>>>>,   \* particle
    <<<<21161, 21205, 35422>>, <<97, 117, 120, 105, 108, 105, 97, 114, 121>>>>,   \* auxiliary
    <<<<25509, 32154, 35422>>, <<99, 111, 110, 106, 117, 110, 99, 116, 105, 111, 110>>>>,   \* conjunction
    <<<<24863, 21205, 35422>>, <<105, 110, 116, 101, 114, 106, 101, 99, 116, 105, 111, 110>>>>,   \* interjection
    <<<<36899, 20307, 35422>>, <<97, 100, 110, 111, 109, 105, 110, 97, 108>>>>,   \* adnominal
    <<<<20195, 21517, 35422>>, <<112, 114, 111, 110, 111, 117, 110>>>>,   \* pronoun
    <<<<25509, 38957, 36766>>, <<112, 114, 101, 102, 105, 120>>>>,   \* prefix
    <<<<25509, 23614, 36766>>, <<115, 117, 102, 102, 105, 120>>>>,   \* suffix
    <<<<35352, 21495>>, <<112, 117, 110, 99, 116, 117, 97, 116, 105, 111, 110>>>>,   \* punctuation
    <<<<35036, 21161, 35352, 21495>>, <<112, 117, 110, 99, 116, 117, 97, 116, 105, 111, 110>>>>,   \* punctuation
    <<<<31354, 30333>>, <<119, 104, 105, 116, 101, 115, 112, 97, 99, 101>>>> }

Unknown_pos == <<117, 110, 107, 110, 111, 119, 110>>
Asterisk == <<42>>

\* str.lower() on the ASCII letters
Lower(s) == [i \in DOMAIN s |-> IF 65 <= s[i] /\ s[i] <= 90 THEN s[i] + 32 ELSE s[i]]

_get_part_of_speech(pos) ==
  IF pos = <<>> THEN Unknown_pos
  ELSE IF \E e \in pos_mapping : e[1] = pos
    THEN (CHOOSE e \in pos_mapping : e[1] = pos)[2]
    ELSE Lower(pos)

Token(surface, parts, baseForm, partOfSpeech) ==
  [surface |-> surface, parts |-> parts, baseForm |-> baseForm,
   partOfSpeech |-> partOfSpeech]

\* the body of the loop of tokenize_text for one morpheme of the analyzer;
\* word.feature is the tuple of IPADIC features, 0-based in the code
MorphemeToken(word) ==
  LET surface == word.surface
      feature == word.feature
      reading_katakana ==
        IF Len(feature) > 7 /\ feature[8] # Asterisk THEN feature[8] ELSE None
      reading_hiragana ==
        IF Truthy(reading_katakana) THEN _katakana_to_hiragana(reading_katakana)
        ELSE None
      pos == _get_part_of_speech(IF feature # <<>> THEN feature[1] ELSE <<>>)
      base_form ==
        IF Len(feature) > 6 /\ feature[7] # Asterisk THEN feature[7] ELSE surface
  IN  Token(surface, _create_token_parts(surface, reading_hiragana), base_form, pos)

\* variant: after a merge the scan goes on at the second token of the pair
RECURSIVE MergeLoopStepOne(_, _, _)
MergeLoopStepOne(tokens, i, merged_so_far) ==
  IF ~(i < Len(tokens)) THEN merged_so_far
  ELSE IF i + 1 < Len(tokens)
          /\ \E e \in KATAKANA_COMPOUNDS :
               e[1] = tokens[i + 1].surface /\ e[2] = tokens[i + 2].surface
    THEN LET merged_surface ==
               (CHOOSE e \in KATAKANA_COMPOUNDS :
                  e[1] = tokens[i + 1].surface /\ e[2] = tokens[i + 2].surface)[3]
         IN  MergeLoopStepOne(tokens, i + 1,
                       Append(merged_so_far,
                              Token(merged_surface, <<TokenPart(merged_surface, None)>>,
                                    merged_surface, tokens[i + 1].partOfSpeech)))
    ELSE MergeLoopStepOne(tokens, i + 1, Append(merged_so_far, tokens[i + 1]))

\* the while loop of _merge_katakana_compounds; i is 0-based as in the code
RECURSIVE MergeLoop(_, _, _)
MergeLoop(tokens, i, merged_so_far) ==
  IF ~(i < Len(tokens)) THEN merged_so_far
  ELSE IF i + 1 < Len(tokens)
          /\ \E e \in KATAKANA_COMPOUNDS :
               e[1] = tokens[i + 1].surface /\ e[2] = tokens[i + 2].surface
    THEN LET merged_surface ==
               (CHOOSE e \in KATAKANA_COMPOUNDS :
                  e[1] = tokens[i + 1].surface /\ e[2] = tokens[i + 2].surface)[3]
         IN  MergeLoop(tokens, i + 2,
                       Append(merged_so_far,
                              Token(merged_surface, <<TokenPart(merged_surface, None)>>,
                                    merged_surface, tokens[i + 1].partOfSpeech)))
    ELSE MergeLoop(tokens, i + 1, Append(merged_so_far, tokens[i + 1]))

_merge_katakana_compounds(tokens) ==
  IF Len(tokens) < 2 THEN tokens ELSE MergeLoop(tokens, 0, <<>>)

\* tokenize_text, given the morphemes self.tagger(text) yields
tokenize_text(words) ==
  _merge_katakana_compounds([i \in DOMAIN words |-> MorphemeToken(words[i])])

(***************************************************************************)
(* Tokenizer inputs: what the tagger yields for a text                     *)
(***************************************************************************)
MaxSurfaceLen == 3
MaxReadingLen == 3
MaxMorphemes == 3

\* U+8A00, U+98DF (kanji), U+3044 (hiragana), U+30D9 (katakana)
SurfaceChars == {35328, 39135, 12356, 12505}
\* U+30A4, U+30D9, U+30FC (the long-vowel mark): IPADIC readings are katakana
ReadingChars == {12452, 12505, 12540}

RECURSIVE Strings(_, _)
Strings(alphabet, n) ==
  IF n = 0 THEN {<<>>}
  ELSE LET shorter == Strings(alphabet, n - 1)
       IN  shorter \cup {Append(w, c) : w \in {x \in shorter : Len(x) = n - 1},
                                        c \in alphabet}

Noun == <<21517, 35422>>
Verb == <<21205, 35422>>
Symbol == <<35352, 21495>>
\* a tag outside pos_mapping
OtherTag == <<70, 105, 108, 108, 101, 114>>
Taberu == <<39135, 12409, 12427>>

Morpheme(surface, feature) == [surface |-> surface, feature |-> feature]

\* the shapes of word.feature: the full IPADIC tuple with a reading, with a
\* base form or '*'; reading '*'; a tuple cut before the reading; a tuple of
\* one field; the empty tuple
Features(reading) ==
  { <<Verb, Asterisk, Asterisk, Asterisk, Asterisk, Asterisk, Taberu, reading, reading>>,
    <<Noun, Asterisk, Asterisk, Asterisk, Asterisk, Asterisk, Asterisk, reading, reading>> }
FeaturesWithoutReading ==
  { <<Noun, Asterisk, Asterisk, Asterisk, Asterisk, Asterisk, Asterisk, Asterisk, Asterisk>>,
    <<Symbol, Asterisk, Asterisk, Asterisk, Asterisk, Asterisk, Taberu>>,
    <<OtherTag>>,
    <<>> }

\* a morpheme of the analyzer spans at least one character of the text
SingleMorphemes ==
  { Morpheme(sf, f) :
      sf \in Strings(SurfaceChars, MaxSurfaceLen) \ {<<>>},
      f \in FeaturesWithoutReading
            \cup UNION {Features(r) : r \in Strings(ReadingChars, MaxReadingLen) \ {<<>>}} }

Ea == <<12456, 12450>>
Kon == <<12467, 12531>>
Haado == <<12495, 12540, 12489>>
Wea == <<12454, 12455, 12450>>
Tabe == <<39135, 12409>>
TabeReading == <<12479, 12505>>
Wo == <<12434>>

KatakanaNoun(w) ==
  Morpheme(w, <<Noun, Asterisk, Asterisk, Asterisk, Asterisk, Asterisk, w, w, w>>)
\* morphemes of running text: parts of known compounds, a verb stem, a particle
TextMorphemes ==
  { KatakanaNoun(Ea), KatakanaNoun(Kon), KatakanaNoun(Haado), KatakanaNoun(Wea),
    Morpheme(Tabe, <<Verb, Asterisk, Asterisk, Asterisk, Asterisk, Asterisk, Taberu,
                     TabeReading, TabeReading>>),
    Morpheme(Wo, <<OtherTag>>) }

RECURSIVE Lists(_, _)
Lists(S, n) ==
  IF n = 0 THEN {<<>>}
  ELSE LET shorter == Lists(S, n - 1)
       IN  shorter \cup {Append(w, x) : w \in {y \in shorter : Len(y) = n - 1}, x \in S}

\* a kanji run, an embedded kana, a kanji run and a kana suffix, with
\* readings that hold the embedded kana after the first kanji's reading, at
\* its very start, and nowhere
AlignmentSamples ==
  { Morpheme(<<35328, 12356, 39135, 12505>>, f) :
      f \in UNION {Features(r) : r \in { <<12505, 12452, 12452, 12505>>,
                                          <<12452, 12452, 12505, 12505>>,
                                          <<12505, 12505, 12505, 12505>> }} }

TaggerOutputs ==
  {<<m>> : m \in SingleMorphemes \cup AlignmentSamples}
    \cup Lists(TextMorphemes, MaxMorphemes)

\* U+0020
Space == <<32>>
RECURSIVE JoinSurfaces(_, _)
JoinSurfaces(words, separator) ==
  IF words = <<>> THEN <<>>
  ELSE IF Len(words) = 1 THEN words[1].surface
  ELSE words[1].surface \o separator \o JoinSurfaces(Tail(words), separator)

\* the texts for which self.tagger(text) yields these morphemes: MeCab cuts
\* the text into morphemes and skips the ASCII white space between them,
\* which word.surface does not hold
InputTexts(words) == {JoinSurfaces(words, <<>>), JoinSurfaces(words, Space)}

(***************************************************************************)
(* Tokenizer driver                                                        *)
(***************************************************************************)
ValidatorUnused ==
  /\ data_dir_exists = FALSE /\ level_files = LevelFiles("nofiles")
  /\ word_lists = EmptyDict /\ level_specific = EmptyDict
  /\ vpc = "unused" /\ call = NoCall /\ result = NoResult /\ previous = NoPrevious

InitTokenizer ==
  /\ tpc = "idle"
  /\ input_text = <<>>
  /\ tagged = <<>>
  /\ tokenized = <<>>
  /\ ValidatorUnused
  /\ LoopUnused
  /\ SingletonsUnused

TokenizeTextCall ==
  /\ tpc = "idle"
  /\ \E ws \in TaggerOutputs :
       /\ input_text' \in InputTexts(ws)
       /\ tagged' = ws
       /\ tokenized' = tokenize_text(ws)
  /\ tpc' = "returned"
  /\ UNCHANGED <<vvars, lvars, svars>>

TokenizeTextReturn ==
  /\ tpc = "returned"
  /\ tpc' = "idle"
  /\ input_text' = <<>>
  /\ tagged' = <<>>
  /\ tokenized' = <<>>
  /\ UNCHANGED <<vvars, lvars, svars>>

NextTokenizer ==
  \/ TokenizeTextCall
  \/ TokenizeTextReturn

SpecTokenizer == InitTokenizer /\ [][NextTokenizer]_vars

(***************************************************************************)
(* Properties of the tokenizer (checked under SpecTokenizer)               *)
(***************************************************************************)
TokenizeReturned == tpc = "returned"

RECURSIVE ConcatTexts(_)
ConcatTexts(parts) ==
  IF parts = <<>> THEN <<>> ELSE Head(parts).text \o ConcatTexts(Tail(parts))

HasKanji(w) == \E i \in DOMAIN w : _is_kanji(w[i])
AllKanji(w) == \A i \in DOMAIN w : _is_kanji(w[i])

\* C4: every token tokenize_text returns with a non-empty surface has parts,
\* and the texts of its parts, concatenated in order, are exactly its surface
C4_PartsConcatenateToSurface ==
  TokenizeReturned =>
    \A i \in DOMAIN tokenized :
      tokenized[i].surface # <<>> =>
        /\ tokenized[i].parts # NoParts
        /\ ConcatTexts(tokenized[i].parts) = tokenized[i].surface

\* a returned list that holds a merged compound and a token of the
\* mixed-alignment branch (a kanji part with a reading, then its kana)
C4_Witness ==
  /\ TokenizeReturned
  /\ Len(tokenized) < Len(tagged)
  /\ \E i \in DOMAIN tokenized : tokenized[i].surface \in {e[3] : e \in KATAKANA_COMPOUNDS}
  /\ \E i \in DOMAIN tokenized :
       /\ HasKanji(tokenized[i].surface) /\ ~AllKanji(tokenized[i].surface)
       /\ Len(tokenized[i].parts) >= 2
       /\ tokenized[i].parts[1].reading # None

(***************************************************************************)
(* pipeline.py: story dicts                                                *)
(***************************************************************************)
\* d[key] = value
DictSet(d, key, value) ==
  [k \in DOMAIN d \cup {key} |-> IF k = key THEN value ELSE d[k]]

\* _token_to_dict: "parts" is set only when token.parts is truthy, and a
\* part carries "reading" only when its reading is truthy
PartDict(p) ==
  IF Truthy(p.reading) THEN [text |-> p.text, reading |-> p.reading]
  ELSE [text |-> p.text]
_token_to_dict(token) ==
  LET base == [surface |-> token.surface, baseForm |-> token.baseForm,
               partOfSpeech |-> token.partOfSpeech]
  IN  IF token.parts # NoParts /\ token.parts # <<>>
        THEN DictSet(base, "parts", [i \in DOMAIN token.parts |-> PartDict(token.parts[i])])
        ELSE base

\* A story dict as far as the loop reads and writes it: its text-bearing
\* places in the order _validate_vocabulary collects them, and its metadata.
\* A place holds its text (has_text: the text is non-empty; words: what the
\* tagger yields for it) and its tokens (the empty list when the key is
\* absent: every reader uses .get(...) and a truth test).
Segment(has_text, words) == [has_text |-> has_text, words |-> words, tokens |-> <<>>]
\* the metadata _format_story builds has none of the keys the loop writes
FreshStory(segments) == [segments |-> segments, metadata |-> EmptyDict]

\* the for loops of _tokenize_story: a place without text keeps its tokens
TokenizeSegment(seg) ==
  IF seg.has_text
    THEN [seg EXCEPT !.tokens =
            LET ts == tokenize_text(seg.words) IN [i \in DOMAIN ts |-> _token_to_dict(ts[i])]]
    ELSE seg
_tokenize_story(st) ==
  [st EXCEPT !.segments = [i \in DOMAIN st.segments |-> TokenizeSegment(st.segments[i])]]

\* all_tokens of _validate_vocabulary
RECURSIVE CollectTokens(_)
CollectTokens(segments) ==
  IF segments = <<>> THEN <<>>
  ELSE Head(segments).tokens \o CollectTokens(Tail(segments))
AllTokens(st) == CollectTokens(st.segments)

\* round(readability_score, 3), in thousandths; on an exact tie the float
\* nearest to the fraction decides, so both neighbours are possible
Round3(f) ==
  LET scaled == 1000 * f.num
      low == scaled \div f.den
      twice_rest == 2 * (scaled % f.den)
  IN  IF twice_rest < f.den THEN {low}
      ELSE IF twice_rest > f.den THEN {low + 1}
      ELSE {low, low + 1}

\* VocabularyValidator.to_dict, given the rounded score
to_dict(r, score) ==
  [totalTokens |-> r.total_tokens, uniqueWords |-> r.unique_words,
   wordsByLevel |-> r.words_by_level,
   targetLevelCount |-> r.target_level_count,
   aboveLevelCount |-> r.above_level_count,
   unknownCount |-> r.unknown_count,
   minTargetThreshold |-> r.min_target_threshold,
   maxAboveThreshold |-> r.max_above_threshold,
   maxUnknownThreshold |-> r.max_unknown_threshold,
   hasLearningValue |-> r.has_learning_value,
   notTooHard |-> r.not_too_hard,
   notTooObscure |-> r.not_too_obscure,
   passed |-> r.passed,
   readabilityScore |-> score,
   targetLevel |-> r.target_level,
   message |-> r.message,
   targetLevelWords |-> r.target_level_words,
   aboveLevelWords |-> r.above_level_words,
   unknownWords |-> r.unknown_words]

(***************************************************************************)
(* pipeline.py: _generate_with_validation_loop                             *)
(***************************************************************************)
MaxAttempts == 3

\* None where a dict is expected
NoDict == [none |-> TRUE]
NoOutcome == [kind |-> "none"]
Returned(ref) == [kind |-> "returned", story_ref |-> ref, exception |-> "", site |-> ""]
Raised(exception, site) ==
  [kind |-> "raised", story_ref |-> 0, exception |-> exception, site |-> site]

BoolToInt(b) == IF b THEN 1 ELSE 0

\* variant: an equally ranked newcomer wins
_is_better_validation_or_equal(new_val, old_val) ==
  IF old_val = NoDict THEN TRUE
  ELSE LET new_passes == BoolToInt(DictGet(new_val, "hasLearningValue", FALSE))
                         + BoolToInt(DictGet(new_val, "notTooHard", FALSE))
                         + BoolToInt(DictGet(new_val, "notTooObscure", FALSE))
           old_passes == BoolToInt(DictGet(old_val, "hasLearningValue", FALSE))
                         + BoolToInt(DictGet(old_val, "notTooHard", FALSE))
                         + BoolToInt(DictGet(old_val, "notTooObscure", FALSE))
       IN  IF new_passes # old_passes THEN new_passes > old_passes
           ELSE DictGet(new_val, "readabilityScore", 0)
                  >= DictGet(old_val, "readabilityScore", 0)

_is_better_validation(new_val, old_val) ==
  IF old_val = NoDict THEN TRUE
  ELSE LET new_passes == BoolToInt(DictGet(new_val, "hasLearningValue", FALSE))
                         + BoolToInt(DictGet(new_val, "notTooHard", FALSE))
                         + BoolToInt(DictGet(new_val, "notTooObscure", FALSE))
           old_passes == BoolToInt(DictGet(old_val, "hasLearningValue", FALSE))
                         + BoolToInt(DictGet(old_val, "notTooHard", FALSE))
                         + BoolToInt(DictGet(old_val, "notTooObscure", FALSE))
       IN  IF new_passes # old_passes THEN new_passes > old_passes
           ELSE DictGet(new_val, "readabilityScore", 0)
                  > DictGet(old_val, "readabilityScore", 0)

\* variant: the story is given back without the flag
BestEffortMetadataUnflagged(metadata, attempts) ==
  DictSet(metadata, "generationAttempts", attempts)

\* lines 441-442: what the loop writes on the best attempt it gives back
BestEffortMetadata(metadata, attempts) ==
  DictSet(DictSet(metadata, "generationAttempts", attempts),
          "validationPassedOnRetry", FALSE)

\* what the generator hands back: stories of the LLM as the tagger will see
\* them
KanjiNoun(w) ==
  Morpheme(w, <<Noun, Asterisk, Asterisk, Asterisk, Asterisk, Asterisk, w,
                <<12452>>, <<12452>>>>)
StorySamples ==
  { \* no text at all
    FreshStory(<<Segment(FALSE, <<>>)>>),
    \* a text in which the tagger finds no morpheme
    FreshStory(<<Segment(TRUE, <<>>), Segment(FALSE, <<>>)>>),
    \* two N5 words
    FreshStory(<<Segment(TRUE, <<KanjiNoun(LevelWord("N5", 1)), Morpheme(Wo, <<OtherTag>>)>>),
                 Segment(TRUE, <<KanjiNoun(LevelWord("N5", 2))>>)>>),
    \* an N2 word and a word of no list
    FreshStory(<<Segment(TRUE, <<KanjiNoun(LevelWord("N2", 1)), KanjiNoun(UnknownWord(1))>>)>>) }

\* self.story_generator: the StoryGenerator of story_generator.py, whose
\* generate_story and regenerate_story take `level` and have no parameter
\* jlpt_level, so the keyword calls of lines 318-370 raise TypeError; or an
\* object whose methods take the keywords the loop passes
Generators == {"StoryGenerator", "substitute"}
LoopLevels == {"N5", "N6"}

InitLoop ==
  /\ lpc = "loop"
  /\ max_attempts \in 0..MaxAttempts
  /\ tokenize \in BOOLEAN
  /\ generator \in Generators
  /\ jlpt_level \in LoopLevels
  /\ attempt = 0
  /\ heap = <<>>
  /\ story = 0
  /\ best_story = 0
  /\ best_validation = NoDict
  /\ outcome = NoOutcome
  /\ feedback = NoResult
  /\ trace = <<>>
  /\ candidates = <<>>
  \* the validator singleton does not exist yet
  /\ data_dir_exists \in BOOLEAN
  /\ level_files = (IF data_dir_exists THEN LevelFiles("standard") ELSE LevelFiles("nofiles"))
  /\ word_lists = EmptyDict
  /\ level_specific = EmptyDict
  /\ vpc = "new"
  /\ call = NoCall
  /\ result = NoResult
  /\ previous = NoPrevious
  /\ TokenizerUnused
  /\ SingletonsUnused

\* an awaited call: what was called, during which attempt, and whether it
\* came back (ok) or raised
Awaited(op, during, ok) == [op |-> op, attempt |-> during, ok |-> ok]

\* variant: the range holds one attempt more
HasNextAttemptOneMore(current, limit) == current <= limit

\* range(1, max_attempts + 1) has an element after `current`
HasNextAttempt(current, limit) == current < limit

\* for attempt in range(1, max_attempts + 1)
NextAttempt ==
  /\ lpc = "loop"
  /\ IF HasNextAttempt(attempt, max_attempts)
       THEN /\ attempt' = attempt + 1
            /\ lpc' = "generate"
       ELSE /\ lpc' = "exhausted"
            /\ UNCHANGED attempt
  /\ UNCHANGED <<max_attempts, tokenize, heap, story, best_story, best_validation,
                 outcome, generator, jlpt_level, feedback, trace, candidates,
                 vvars, tvars, svars>>

\* variant: the failure is swallowed and the loop goes on
AfterGeneratorRaisesGoOn(next_position) == next_position

\* no try/except encloses the generator calls of lines 310-376: when one
\* raises the loop is left by the exception, wherever it would have gone next
AfterGeneratorRaises(next_position) == "raised"

\* the generator call of an attempt: the story it returns, or its failure
GeneratorCall(site) ==
  IF generator = "StoryGenerator"
    THEN /\ lpc' = AfterGeneratorRaises("loop")
         /\ outcome' = Raised("TypeError", site)
         /\ UNCHANGED <<heap, story>>
    ELSE \E fails \in BOOLEAN, st \in StorySamples :
           IF fails
             THEN /\ lpc' = AfterGeneratorRaises("loop")
                  /\ outcome' = Raised("GenerationError", site)
                  /\ UNCHANGED <<heap, story>>
             ELSE /\ heap' = Append(heap, st)
                  /\ story' = Len(heap) + 1
                  /\ lpc' = (IF tokenize THEN "tokenize" ELSE "no_validation")
                  /\ UNCHANGED outcome

\* attempt == 1: story_generator.generate_story(jlpt_level=..., ...)
GenerateStory ==
  /\ lpc = "generate"
  /\ attempt = 1
  /\ GeneratorCall("generate_story")
  /\ trace' = Append(trace, Awaited("generate_story", attempt, lpc' # "raised"))
  /\ UNCHANGED <<max_attempts, tokenize, attempt, best_story, best_validation,
                 generator, jlpt_level, feedback, candidates,
                 vvars, tvars, svars>>

\* attempt > 1: story_generator.regenerate_story(failed_story=best_story,
\* validation_result=best_validation, jlpt_level=..., attempt=attempt)
RegenerateStory ==
  /\ lpc = "generate"
  /\ attempt > 1
  /\ feedback' = [op |-> "regenerate_story", failed_story |-> best_story,
                  validation_result |-> best_validation, attempt |-> attempt]
  /\ GeneratorCall("regenerate_story")
  /\ trace' = Append(trace, Awaited("regenerate_story", attempt, lpc' # "raised"))
  /\ UNCHANGED <<max_attempts, tokenize, attempt, best_story, best_validation,
                 generator, jlpt_level, candidates,
                 vvars, tvars, svars>>

\* if tokenize: story = await self._tokenize_story(story)
TokenizeStory ==
  /\ lpc = "tokenize"
  /\ heap' = [heap EXCEPT ![story] = _tokenize_story(@)]
  /\ lpc' = "validate"
  /\ trace' = Append(trace, Awaited("_tokenize_story", attempt, TRUE))
  /\ UNCHANGED <<max_attempts, tokenize, attempt, story, best_story, best_validation,
                 outcome, generator, jlpt_level, feedback, candidates,
                 vvars, tvars, svars>>

\* get_validator() on its first call: the singleton is made and loads its
\* lists; _validate_vocabulary gets that far only with tokens to validate
GetValidator ==
  /\ lpc = "validate"
  /\ AllTokens(heap[story]) # <<>>
  /\ _load_word_lists

\* the fields of the dataclass ValidationResult
ValidationResultFields ==
  {"total_tokens", "unique_words", "words_by_level", "target_level_count",
   "above_level_count", "unknown_count", "min_target_threshold",
   "max_above_threshold", "max_unknown_threshold", "has_learning_value",
   "not_too_hard", "not_too_obscure", "passed", "readability_score",
   "target_level", "message", "target_level_words", "above_level_words",
   "unknown_words"}

\* the attributes of result that the logging of lines 260-267 reads, in the
\* order it reads them
LoggedAttributes(r) ==
  IF r.passed THEN <<"passed", "difficulty_score">>
  ELSE <<"passed", "message", "above_level_words", "below_level_words">>

\* the first attribute read that ValidationResult does not have, "" if none
FirstMissingAttribute(r) ==
  LET missing == {i \in DOMAIN LoggedAttributes(r) :
                    LoggedAttributes(r)[i] \notin ValidationResultFields}
  IN  IF missing = {} THEN "" ELSE LoggedAttributes(r)[Least(missing)]

\* _validate_vocabulary(story, jlpt_level): without tokens the story comes
\* back untouched; with tokens the validation is recorded in the metadata
\* and the result is logged, which raises AttributeError when the log line
\* reads an attribute the result does not have
ValidateVocabulary ==
  /\ lpc = "validate"
  /\ LET all_tokens == AllTokens(heap[story])
     IN  IF all_tokens = <<>>
           THEN /\ lpc' = "track"
                /\ UNCHANGED <<heap, outcome>>
           ELSE /\ vpc = "idle"
                /\ \E r \in validate_tokens(all_tokens, jlpt_level) :
                     \E score \in Round3(r.readability_score) :
                       /\ heap' = [heap EXCEPT ![story].metadata =
                                     DictSet(@, "vocabularyValidation", to_dict(r, score))]
                       /\ IF FirstMissingAttribute(r) = ""
                            THEN /\ lpc' = "track"
                                 /\ UNCHANGED outcome
                            ELSE /\ lpc' = "raised"
                                 /\ outcome' = Raised("AttributeError",
                                                      FirstMissingAttribute(r))
  /\ trace' = Append(trace, Awaited("_validate_vocabulary", attempt, lpc' # "raised"))
  /\ UNCHANGED <<max_attempts, tokenize, attempt, story, best_story, best_validation,
                 generator, jlpt_level, feedback, candidates,
                 vvars, tvars, svars>>

\* a story compared with the best: which dict it is and the validation the
\* loop read from its metadata, metadata.get("vocabularyValidation", {})
Candidate(ref, metadata) ==
  [story_ref |-> ref,
   validation |-> DictGet(metadata, "vocabularyValidation", EmptyDict)]

\* validation.get("aboveLevelWords", []) + validation.get("unknownWords", [])
ProblematicWords(validation) ==
  DictGet(validation, "aboveLevelWords", {}) \cup DictGet(validation, "unknownWords", {})

\* lines 386-433: the best attempt is tracked, a passing story is returned,
\* the second attempt goes to the simplifier when the validation names
\* words, and otherwise the loop goes on
TrackBest ==
  /\ lpc = "track"
  /\ LET validation == DictGet(heap[story].metadata, "vocabularyValidation", EmptyDict)
         better == best_story = 0 \/ _is_better_validation(validation, best_validation)
     IN  /\ best_story' = (IF better THEN story ELSE best_story)
         /\ best_validation' = (IF better THEN validation ELSE best_validation)
         /\ IF DictGet(validation, "passed", FALSE)
              THEN /\ heap' = [heap EXCEPT ![story].metadata =
                                 DictSet(@, "generationAttempts", attempt)]
                   /\ lpc' = "returned"
                   /\ outcome' = Returned(story)
              ELSE /\ lpc' = (IF attempt = 2 /\ ProblematicWords(validation) # {}
                                THEN "simplify"
                              ELSE IF attempt < max_attempts THEN "sleep"
                              ELSE "loop")
                   /\ UNCHANGED <<heap, outcome>>
  /\ candidates' = Append(candidates, Candidate(story, heap[story].metadata))
  /\ UNCHANGED <<max_attempts, tokenize, attempt, story, generator, jlpt_level,
                 feedback, trace, vvars, tvars, svars>>

\* await asyncio.sleep(1)
SleepBeforeRetry ==
  /\ lpc = "sleep"
  /\ lpc' = "loop"
  /\ trace' = Append(trace, Awaited("sleep", attempt, TRUE))
  /\ UNCHANGED <<max_attempts, tokenize, attempt, heap, story, best_story,
                 best_validation, outcome, generator, jlpt_level, feedback, candidates,
                 vvars, tvars, svars>>

\* tokenize is false: story["metadata"]["generationAttempts"] = 1; return story
ReturnWithoutValidation ==
  /\ lpc = "no_validation"
  /\ heap' = [heap EXCEPT ![story].metadata = DictSet(@, "generationAttempts", 1)]
  /\ lpc' = "returned"
  /\ outcome' = Returned(story)
  /\ UNCHANGED <<max_attempts, tokenize, attempt, story, best_story, best_validation,
                 generator, jlpt_level, feedback, trace, candidates,
                 vvars, tvars, svars>>

\* lines 439-443: the best attempt is flagged and returned; best_story is
\* still None when the loop body never ran, and None["metadata"] raises
ReturnBest ==
  /\ lpc = "exhausted"
  /\ IF best_story = 0
       THEN /\ lpc' = "raised"
            /\ outcome' = Raised("TypeError", "best_story")
            /\ UNCHANGED heap
       ELSE /\ heap' = [heap EXCEPT ![best_story].metadata =
                          BestEffortMetadata(@, max_attempts)]
            /\ lpc' = "returned"
            /\ outcome' = Returned(best_story)
  /\ UNCHANGED <<max_attempts, tokenize, attempt, story, best_story, best_validation,
                 generator, jlpt_level, feedback, trace, candidates,
                 vvars, tvars, svars>>

\* simplify_sentences rewrites segment["text"] of the story it is given, in
\* place, with what the LLM answers, and returns that same dict; the tokens
\* of a rewritten segment stay until the story is tokenized again
NewText(has_text, words) == [rewritten |-> TRUE, has_text |-> has_text, words |-> words]
\* the segment is not among the rewrites
KeepText == [rewritten |-> FALSE, has_text |-> FALSE, words |-> <<>>]
TextRewrites ==
  { NewText(FALSE, <<>>),
    NewText(TRUE, <<KanjiNoun(LevelWord("N5", 1)), KanjiNoun(LevelWord("N5", 2))>>),
    NewText(TRUE, <<KanjiNoun(UnknownWord(1))>>) }
Rewrite(seg, rw) ==
  IF ~rw.rewritten THEN seg
  ELSE [seg EXCEPT !.has_text = rw.has_text, !.words = rw.words]

\* lines 400-427, reached on the second attempt with problematic words:
\* simplify, tokenize and validate the story again, return it when it
\* passes now, else track it when it is better
SimplifyStory ==
  /\ lpc = "simplify"
  /\ vpc = "idle"
  /\ \E rws \in [DOMAIN heap[story].segments -> TextRewrites \cup {KeepText}] :
       LET simplified ==
             _tokenize_story([heap[story] EXCEPT !.segments =
                [i \in DOMAIN @ |-> Rewrite(@[i], rws[i])]])
           all_tokens == AllTokens(simplified)
       IN  IF all_tokens = <<>>
             \* nothing is recorded: the validation of the attempt stays
             THEN LET simplified_validation ==
                        DictGet(simplified.metadata, "vocabularyValidation", EmptyDict)
                  IN  IF DictGet(simplified_validation, "passed", FALSE)
                        THEN /\ heap' = [heap EXCEPT ![story] =
                                   [simplified EXCEPT !.metadata =
                                      DictSet(DictSet(@, "generationAttempts", attempt),
                                              "simplifierUsed", TRUE)]]
                             /\ lpc' = "returned"
                             /\ outcome' = Returned(story)
                             /\ UNCHANGED <<best_story, best_validation>>
                        ELSE /\ heap' = [heap EXCEPT ![story] = simplified]
                             /\ IF _is_better_validation(simplified_validation, best_validation)
                                  THEN /\ best_story' = story
                                       /\ best_validation' = simplified_validation
                                  ELSE UNCHANGED <<best_story, best_validation>>
                             /\ lpc' = (IF attempt < max_attempts THEN "sleep" ELSE "loop")
                             /\ UNCHANGED outcome
             ELSE \E r \in validate_tokens(all_tokens, jlpt_level) :
                    \E score \in Round3(r.readability_score) :
                      LET simplified_validation == to_dict(r, score)
                          recorded == [simplified EXCEPT !.metadata =
                                         DictSet(@, "vocabularyValidation",
                                                 simplified_validation)]
                      IN  IF FirstMissingAttribute(r) # ""
                            THEN /\ heap' = [heap EXCEPT ![story] = recorded]
                                 /\ lpc' = "raised"
                                 /\ outcome' = Raised("AttributeError",
                                                      FirstMissingAttribute(r))
                                 /\ UNCHANGED <<best_story, best_validation>>
                          ELSE IF simplified_validation.passed
                            THEN /\ heap' = [heap EXCEPT ![story] =
                                       [recorded EXCEPT !.metadata =
                                          DictSet(DictSet(@, "generationAttempts", attempt),
                                                  "simplifierUsed", TRUE)]]
                                 /\ lpc' = "returned"
                                 /\ outcome' = Returned(story)
                                 /\ UNCHANGED <<best_story, best_validation>>
                          ELSE /\ heap' = [heap EXCEPT ![story] = recorded]
                               /\ IF _is_better_validation(simplified_validation,
                                                           best_validation)
                                    THEN /\ best_story' = story
                                         /\ best_validation' = simplified_validation
                                    ELSE UNCHANGED <<best_story, best_validation>>
                               /\ lpc' = (IF attempt < max_attempts THEN "sleep" ELSE "loop")
                               /\ UNCHANGED outcome
  /\ trace' = trace \o <<Awaited("simplify_sentences", attempt, TRUE),
                        Awaited("_tokenize_story", attempt, TRUE),
                        Awaited("_validate_vocabulary", attempt, lpc' # "raised")>>
  /\ candidates' = (IF lpc' = "raised" THEN candidates
                     ELSE Append(candidates, Candidate(story, heap'[story].metadata)))
  /\ UNCHANGED <<max_attempts, tokenize, attempt, story, generator, jlpt_level,
                 feedback, vvars, tvars, svars>>

\* SimplifyStory is no disjunct of NextLoop: no behaviour reaches
\* lpc = "simplify" (SimplifierNeverReached), because a story with tokens
\* leaves ValidateVocabulary by the exception and a story without tokens has
\* no validation that could name a problematic word
NextLoop ==
  \/ NextAttempt
  \/ GenerateStory
  \/ RegenerateStory
  \/ TokenizeStory
  \/ GetValidator
  \/ ValidateVocabulary
  \/ TrackBest
  \/ SleepBeforeRetry
  \/ ReturnWithoutValidation
  \/ ReturnBest

SpecLoop == InitLoop /\ [][NextLoop]_vars

\* the specification with the simplifier step among the actions
NextLoopWithSimplifier == NextLoop \/ SimplifyStory
SpecLoopWithSimplifier == InitLoop /\ [][NextLoopWithSimplifier]_vars

(***************************************************************************)
(* Properties of the loop (checked under SpecLoop)                         *)
(***************************************************************************)
LoopReturned == lpc = "returned"
LoopRaised == lpc = "raised"
ReturnedMetadata == heap[outcome.story_ref].metadata
RecordedValidation == DictGet(ReturnedMetadata, "vocabularyValidation", EmptyDict)

\* the simplifier branch of the second attempt is never entered
SimplifierNeverReached == lpc # "simplify"

\* C2: with tokenize set, a story the loop returns either has a recorded
\* validation that passed and generationAttempts = the attempt it passed
\* at, or carries validationPassedOnRetry = False and generationAttempts =
\* max_attempts; a story without a passed validation is never returned
\* without that flag.
C2_ReturnedPassedOrFlagged ==
  (LoopReturned /\ tokenize) =>
    LET md == ReturnedMetadata
        passed_here ==
          /\ "vocabularyValidation" \in DOMAIN md
          /\ DictGet(RecordedValidation, "passed", FALSE)
          /\ DictGet(md, "generationAttempts", 0) = attempt
        flagged ==
          /\ "validationPassedOnRetry" \in DOMAIN md
          /\ md["validationPassedOnRetry"] = FALSE
          /\ DictGet(md, "generationAttempts", 0) = max_attempts
    IN  /\ passed_here \/ flagged
        /\ (~DictGet(RecordedValidation, "passed", FALSE) => flagged)

\* three attempts that did not pass, and the best one returned with the flag
C2_Witness ==
  /\ LoopReturned /\ tokenize
  /\ max_attempts = 3 /\ attempt = 3
  /\ outcome.story_ref = best_story
  /\ "validationPassedOnRetry" \in DOMAIN ReturnedMetadata
  /\ ReturnedMetadata["validationPassedOnRetry"] = FALSE
  /\ ReturnedMetadata["generationAttempts"] = 3

\* C3: with max_attempts >= 1, the loop ends by an exception only when a
\* call of the generator (generate_story, regenerate_story) or of the
\* simplifier failed.
C3_RaisesOnlyWhenGeneratorFails ==
  (LoopRaised /\ max_attempts >= 1) =>
    outcome.site \in {"generate_story", "regenerate_story", "simplify_sentences"}

\* the loop is a coroutine the event loop keeps running: a step that can be
\* taken is taken
SpecLoopFair == SpecLoop /\ WF_vars(NextLoop)

LoopEnded == lpc \in {"returned", "raised"}
GenerationOps == {"generate_story", "regenerate_story"}
GenerationCalls == {i \in DOMAIN trace : trace[i].op \in GenerationOps}
\* the calls of the trace made during attempt k
CallsOfAttempt(k) == {i \in DOMAIN trace : trace[i].attempt = k}

\* at most max_attempts generation calls, the k-th of them made during
\* attempt k (generate_story for the first, regenerate_story for the
\* others), and made only after every call of the attempts before it, the
\* tokenization and the validation of attempt k-1 among them, came back
SequentialAttempts ==
  /\ Cardinality(GenerationCalls) <= max_attempts
  /\ \A i \in GenerationCalls :
       /\ trace[i].attempt = Cardinality({j \in GenerationCalls : j <= i})
       /\ trace[i].op = (IF trace[i].attempt = 1 THEN "generate_story"
                         ELSE "regenerate_story")
       /\ \A j \in DOMAIN trace : trace[j].attempt < trace[i].attempt => j < i /\ trace[j].ok
       /\ trace[i].attempt >= 2 =>
            \E t, v \in CallsOfAttempt(trace[i].attempt - 1) :
              /\ t < v /\ v < i
              /\ trace[t].op = "_tokenize_story"
              /\ trace[v].op = "_validate_vocabulary"

\* C11: for max_attempts >= 1 the loop ends, after at most max_attempts
\* generation calls (generate_story for attempt 1, regenerate_story for
\* every later one); the call of attempt k+1 is made only after the
\* tokenization and the validation of attempt k came back, so that no two
\* generation calls are under way together.
C11_TerminatesWithinMaxAttempts ==
  /\ [](max_attempts >= 1 => SequentialAttempts)
  /\ ((max_attempts >= 1) ~> LoopEnded)

\* a run of three attempts, each generated after the one before was
\* tokenized and validated, that has ended
C11_Witness ==
  /\ LoopEnded
  /\ max_attempts = 3
  /\ Cardinality(GenerationCalls) = 3
  /\ \E i \in GenerationCalls : trace[i].attempt = 3 /\ trace[i].op = "regenerate_story"

\* the order of the claim: more passed checks, then higher readabilityScore
PassedChecks(v) ==
  Cardinality({k \in {"hasLearningValue", "notTooHard", "notTooObscure"} :
                 DictGet(v, k, FALSE)})
RanksHigher(a, b) ==
  \/ PassedChecks(a) > PassedChecks(b)
  \/ /\ PassedChecks(a) = PassedChecks(b)
     /\ DictGet(a, "readabilityScore", 0) > DictGet(b, "readabilityScore", 0)

\* the loop gave back its best attempt after the last attempt
ExhaustedReturn ==
  /\ LoopReturned /\ tokenize
  /\ "validationPassedOnRetry" \in DOMAIN ReturnedMetadata

C13_FeedbackIsPreviousValidation ==
  feedback.op = "regenerate_story" =>
    LET earlier == heap[feedback.attempt - 1].metadata
    IN  /\ "vocabularyValidation" \in DOMAIN earlier
        /\ feedback.validation_result = earlier["vocabularyValidation"]

SimplifierCalls == {i \in DOMAIN trace : trace[i].op = "simplify_sentences"}
\* the validation recorded for the story of the second attempt
SecondValidation ==
  DictGet(heap[2].metadata, "vocabularyValidation", EmptyDict)
\* the second attempt was validated, did not pass and names a word
SecondAttemptFailedNamingWords ==
  /\ Len(heap) >= 2
  /\ \E i \in DOMAIN trace : trace[i].op = "_validate_vocabulary" /\ trace[i].attempt = 2
  /\ "vocabularyValidation" \in DOMAIN heap[2].metadata
  /\ ~SecondValidation["passed"]
  /\ ProblematicWords(SecondValidation) # {}

C15_GenerationFailurePropagates ==
  (outcome.kind = "raised" /\ outcome.site \in GenerationOps) =>
    /\ lpc = "raised"
    /\ trace # <<>>
    /\ trace[Len(trace)].op = outcome.site
    /\ ~trace[Len(trace)].ok
    /\ \A i \in 1..(Len(trace) - 1) : trace[i].ok
    /\ outcome.story_ref = 0

\* regenerate_story fails at the third attempt, with a best attempt tracked
C15_Witness ==
  /\ LoopRaised
  /\ outcome.site = "regenerate_story"
  /\ attempt = 3
  /\ best_story # 0
  /\ Len(heap) = 2

(***************************************************************************)
(* Properties of the tokenizer's parts, merge and readings                 *)
(* (checked under SpecTokenizer)                                           *)
(***************************************************************************)
\* the reading the analyzer supplies for a morpheme, None when it has none
AnalyzerReading(word) ==
  IF Len(word.feature) > 7 /\ word.feature[8] # Asterisk /\ word.feature[8] # <<>>
    THEN word.feature[8]
    ELSE None
\* the morphemes of the call a returned token can come from
MorphemesOf(token) == {j \in DOMAIN tagged : tagged[j].surface = token.surface}
KanjiOnlyTokens ==
  {i \in DOMAIN tokenized : tokenized[i].surface # <<>> /\ AllKanji(tokenized[i].surface)}

\* the claim as stated: a token whose surface is kanji only has exactly one
\* part, the whole surface, whose reading is never null and is the whole
\* hiragana-converted reading
C16_Original_AlwaysReading ==
  TokenizeReturned =>
    \A i \in KanjiOnlyTokens :
      /\ Len(tokenized[i].parts) = 1
      /\ tokenized[i].parts[1].text = tokenized[i].surface
      /\ tokenized[i].parts[1].reading # None
      /\ \E j \in MorphemesOf(tokenized[i]) :
           tokenized[i].parts[1].reading = _katakana_to_hiragana(AnalyzerReading(tagged[j]))

\* C16: a token whose surface is kanji only has exactly one part, the whole
\* surface; when the analyzer supplies a reading the part's reading is the
\* whole hiragana-converted reading, never split per character, and when
\* the analyzer supplies none the part has no reading
C16_KanjiOnlySinglePart ==
  TokenizeReturned =>
    \A i \in KanjiOnlyTokens :
      /\ Len(tokenized[i].parts) = 1
      /\ tokenized[i].parts[1].text = tokenized[i].surface
      /\ \E j \in MorphemesOf(tokenized[i]) :
           tokenized[i].parts[1].reading =
             IF AnalyzerReading(tagged[j]) # None
               THEN _katakana_to_hiragana(AnalyzerReading(tagged[j]))
               ELSE None

\* a surface of two kanji with a reading of three characters, kept whole
C16_Witness ==
  /\ TokenizeReturned
  /\ Len(tokenized) = 1
  /\ tokenized[1].surface = <<35328, 39135>>
  /\ AnalyzerReading(tagged[1]) = <<12452, 12505, 12452>>
  /\ tokenized[1].parts = <<TokenPart(<<35328, 39135>>, <<12356, 12409, 12356>>)>>

\* the reading stream of a token: the reading of a part that has one, the
\* text of a part that has none
RECURSIVE ReadingStream(_)
ReadingStream(parts) ==
  IF parts = <<>> THEN <<>>
  ELSE (IF Head(parts).reading # None THEN Head(parts).reading ELSE Head(parts).text)
       \o ReadingStream(Tail(parts))

\* one kanji run followed by a kana suffix
KanjiThenKana(surface) ==
  /\ HasKanji(surface)
  /\ KanaPrefix(surface) = <<>>
  /\ KanaSuffix(surface) # <<>>
  /\ AllKanji(SubSeq(surface, 1, Len(surface) - Len(KanaSuffix(surface))))
EndsWith(s, tail) ==
  Len(s) >= Len(tail) /\ SubSeq(s, Len(s) - Len(tail) + 1, Len(s)) = tail

\* C17: for a token whose surface is one kanji run followed by a kana suffix
\* and whose hiragana-converted reading ends with the hiragana form of the
\* suffix, the parts are the kanji run with the reading less that suffix,
\* then the suffix without reading; the reading stream of the parts is the
\* converted analyzer reading (as is when the suffix is hiragana, once
\* converted to hiragana when the suffix is katakana)
C17_OkuriganaAlignment ==
  TokenizeReturned =>
    \A i \in DOMAIN tokenized : \A j \in MorphemesOf(tokenized[i]) :
      LET surface == tokenized[i].surface
          suffix == KanaSuffix(surface)
          suffix_hira == _katakana_to_hiragana(suffix)
          reading == _katakana_to_hiragana(AnalyzerReading(tagged[j]))
      IN  (/\ Len(tokenized) = Len(tagged) /\ i = j
           /\ KanjiThenKana(surface)
           /\ reading # None
           /\ EndsWith(reading, suffix_hira)) =>
            /\ tokenized[i].parts =
                 << TokenPart(SubSeq(surface, 1, Len(surface) - Len(suffix)),
                              SubSeq(reading, 1, Len(reading) - Len(suffix))),
                    TokenPart(suffix, None) >>
            /\ _katakana_to_hiragana(ReadingStream(tokenized[i].parts)) = reading
            /\ suffix_hira = suffix => ReadingStream(tokenized[i].parts) = reading

\* U+8A00 U+3044 read U+30A4 U+30A4: the kanji with U+3044, then U+3044
C17_Witness ==
  /\ TokenizeReturned
  /\ Len(tokenized) = 1
  /\ tokenized[1].surface = <<35328, 12356>>
  /\ AnalyzerReading(tagged[1]) = <<12452, 12452>>
  /\ tokenized[1].parts = <<TokenPart(<<35328>>, <<12356>>), TokenPart(<<12356>>, None)>>

\* the tokens the merge pass receives
Morphemes == [i \in DOMAIN tagged |-> MorphemeToken(tagged[i])]
IsCompoundPair(i) ==
  /\ i \in DOMAIN tagged /\ i + 1 \in DOMAIN tagged
  /\ \E e \in KATAKANA_COMPOUNDS :
       e[1] = tagged[i].surface /\ e[2] = tagged[i + 1].surface
CompoundForm(i) ==
  (CHOOSE e \in KATAKANA_COMPOUNDS :
     e[1] = tagged[i].surface /\ e[2] = tagged[i + 1].surface)[3]
\* the sets of pair positions a left-to-right scan can merge: a pair is
\* merged exactly when it is a table key and its first token was not the
\* second token of the pair merged before it
MergedPositions ==
  {M \in SUBSET DOMAIN tagged :
     \A i \in DOMAIN tagged : i \in M <=> (IsCompoundPair(i) /\ (i - 1) \notin M)}

\* C18: the merge pass replaces each pair of adjacent tokens whose surfaces
\* are a key of the table, and whose first token was not consumed by the
\* merge before, by one token with the compound form as surface, one part
\* without reading and the part of speech of the first token; every other
\* token is emitted unchanged, in the original order
C18_MergePass ==
  TokenizeReturned =>
    /\ Cardinality(MergedPositions) = 1
    /\ \A M \in MergedPositions :
         LET out(i) == i - Cardinality({m \in M : m < i})
         IN  /\ Len(tokenized) = Len(tagged) - Cardinality(M)
             /\ \A i \in DOMAIN tagged :
                  /\ i \in M =>
                       /\ tokenized[out(i)].surface = CompoundForm(i)
                       /\ tokenized[out(i)].parts = <<TokenPart(CompoundForm(i), None)>>
                       /\ tokenized[out(i)].partOfSpeech = Morphemes[i].partOfSpeech
                  /\ (i \notin M /\ (i - 1) \notin M) =>
                       tokenized[out(i)] = Morphemes[i]

\* a particle, then a table word presented as its pair: two tokens, the
\* particle unchanged and the compound
C18_Witness ==
  /\ TokenizeReturned
  /\ Len(tagged) = 3
  /\ tagged[1].surface = Wo /\ tagged[2].surface = Haado /\ tagged[3].surface = Wea
  /\ Len(tokenized) = 2
  /\ tokenized[1] = Morphemes[1]
  /\ tokenized[2].surface = Haado \o Wea

RECURSIVE ConcatSurfaces(_)
ConcatSurfaces(tokens) ==
  IF tokens = <<>> THEN <<>> ELSE Head(tokens).surface \o ConcatSurfaces(Tail(tokens))

\* C19: the surfaces of the tokens tokenize_text returns, concatenated, are
\* the input text exactly; the merge pass keeps the concatenation of the
\* surfaces it receives; the empty text yields no token
C19_Lossless ==
  TokenizeReturned =>
    /\ ConcatSurfaces(tokenized) = input_text
    /\ ConcatSurfaces(tokenized) = ConcatSurfaces(Morphemes)
    /\ input_text = <<>> => tokenized = <<>>

\* U+3041 .. U+309F
IsHiragana(char) == 12353 <= char /\ char <= 12447

\* C20: in every token tokenize_text returns, the reading of a part that
\* holds kanji and has a reading is made of hiragana characters only
C20_KanjiReadingsAreHiragana ==
  TokenizeReturned =>
    \A i \in DOMAIN tokenized :
      tokenized[i].parts # NoParts =>
        \A k \in DOMAIN tokenized[i].parts :
          LET part == tokenized[i].parts[k]
          IN  (HasKanji(part.text) /\ part.reading # None) =>
                \A n \in DOMAIN part.reading : IsHiragana(part.reading[n])

\* C21: a token whose surface holds no kanji, and likewise a token for
\* which the analyzer supplies no reading, has exactly one part, the whole
\* surface, without reading; tokenize_text returns its list for such input
C21_NoKanjiOrNoReadingSinglePart ==
  TokenizeReturned =>
    /\ Len(tokenized) <= Len(tagged)
    /\ \A i \in DOMAIN tokenized :
         (\/ ~HasKanji(tokenized[i].surface)
          \/ /\ Len(tokenized) = Len(tagged)
             /\ AnalyzerReading(tagged[i]) = None) =>
           tokenized[i].parts = <<TokenPart(tokenized[i].surface, None)>>

\* a katakana surface for which the analyzer supplies a reading
C21_Witness ==
  /\ TokenizeReturned
  /\ Len(tokenized) = 1
  /\ tokenized[1].surface = <<12505, 12505>>
  /\ AnalyzerReading(tagged[1]) = <<12505, 12505>>
  /\ tokenized[1].parts = <<TokenPart(<<12505, 12505>>, None)>>

(***************************************************************************)
(* Further properties of the validator (checked under SpecValidator)       *)
(***************************************************************************)
\* the word the claim takes from a token, dict or object: baseForm if
\* present and non-empty, else surface
ClaimedWord(token) ==
  LET fields == IF "attrs" \in DOMAIN token THEN token.attrs ELSE token
      present(f) == f \in DOMAIN fields /\ fields[f] # None /\ fields[f] # <<>>
  IN  IF present("baseForm") THEN fields["baseForm"]
      ELSE IF present("surface") THEN fields["surface"]
      ELSE <<>>
ClaimedWords ==
  {ClaimedWord(call.tokens[i]) : i \in DOMAIN call.tokens} \ (IGNORED_WORDS \cup {<<>>})

\* a result of the scoring path: a valid level, loaded lists, candidate words
NormallyScored ==
  /\ ValidateReturned /\ ValidLevel(call.target_level) /\ ListsLoaded
  /\ ClaimedWords # {}

\* C22: in a normally scored result unique_words is the number of distinct
\* words (baseForm if present and non-empty, else surface) that are
\* non-empty and not ignored, and total_tokens is the raw length of the
\* token list; a token without baseForm is scored by its surface, dict and
\* object tokens alike
C22_UniqueWordsAndTotalTokens ==
  NormallyScored =>
    /\ result.unique_words = Cardinality(ClaimedWords)
    /\ result.total_tokens = Len(call.tokens)
    /\ result.message.text \in {"Story vocabulary is appropriate for ",
                                "Story failed validation: "}

\* a story with ignored and empty tokens, a dict token and an object token
\* without baseForm: fewer unique words than tokens
C22_Witness ==
  /\ NormallyScored
  /\ \E i \in DOMAIN call.tokens :
       IsDict(call.tokens[i]) /\ "baseForm" \notin DOMAIN call.tokens[i]
  /\ \E i \in DOMAIN call.tokens :
       ~IsDict(call.tokens[i]) /\ "baseForm" \notin DOMAIN call.tokens[i].attrs
  /\ \E i \in DOMAIN call.tokens : ClaimedWord(call.tokens[i]) \in IGNORED_WORDS
  /\ result.unique_words = Len(call.tokens) - 5
  /\ result.total_tokens = Len(call.tokens)

\* two results for one target level, the second for at least as many tokens
TwoResults ==
  /\ ValidateReturned /\ previous # NoPrevious
  /\ ValidLevel(call.target_level)
ThresholdsNotSmaller ==
  /\ (previous.result.total_tokens <= result.total_tokens) =>
       /\ previous.result.min_target_threshold <= result.min_target_threshold
       /\ previous.result.max_unknown_threshold <= result.max_unknown_threshold
  /\ (result.total_tokens = 2 * previous.result.total_tokens) =>
       /\ previous.result.min_target_threshold <= result.min_target_threshold
       /\ previous.result.max_above_threshold <= result.max_above_threshold
       /\ previous.result.max_unknown_threshold <= result.max_unknown_threshold

\* C23 as claimed: for a fixed valid target level, over all token lists, a
\* result for more tokens never reports a smaller min_target_threshold or
\* max_unknown_threshold, and doubling total_tokens never decreases any of
\* the three thresholds
C23_Original_MonotoneOverAllLists ==
  TwoResults => ThresholdsNotSmaller

\* C23, amended: the same over the token lists that have at least one
\* candidate word; a list without candidate words reports the thresholds
\* 0, 0, 0 with its raw length as total_tokens, below the thresholds of a
\* shorter list that has candidate words
C23_MonotoneOverScoredLists ==
  TwoResults =>
    /\ (WordsToCheck(call.tokens) # {} /\ WordsToCheck(previous.call.tokens) # {}) =>
         ThresholdsNotSmaller
    /\ (ListsLoaded /\ WordsToCheck(call.tokens) = {}) =>
         /\ result.total_tokens = Len(call.tokens)
         /\ result.min_target_threshold = 0
         /\ result.max_above_threshold = 0
         /\ result.max_unknown_threshold = 0

\* an N3 story of 100 tokens, then one of 200 tokens: every threshold grows
C23_Witness ==
  /\ TwoResults /\ call.target_level = "N3"
  /\ previous.result.total_tokens = 100 /\ result.total_tokens = 200
  /\ previous.result.min_target_threshold = 5 /\ result.min_target_threshold = 6
  /\ previous.result.max_above_threshold = 12 /\ result.max_above_threshold = 14
  /\ previous.result.max_unknown_threshold = 9 /\ result.max_unknown_threshold = 10

\* a call for a valid level whose candidate words hold no word of the level
NoTargetLevelWord ==
  /\ ValidateReturned /\ ValidLevel(call.target_level)
  /\ Candidates # {} /\ AtTarget = {}

\* C24 as claimed: for every valid target level and every token list with a
\* non-empty candidate-word set that holds no word of the target level, the
\* result has target_level_count = 0, has_learning_value false and passed
\* false, whatever the length of the story
C24_Original_NoTargetWordFails ==
  NoTargetLevelWord =>
    /\ result.target_level_count = 0
    /\ ~result.has_learning_value
    /\ ~result.passed

\* C24, amended: the same when the word lists are loaded; when they are not
\* loaded the result has target_level_count = 0, has_learning_value true
\* and passed true
C24_NoTargetWordFailsWhenLoaded ==
  NoTargetLevelWord =>
    /\ result.target_level_count = 0
    /\ result.has_learning_value = ~ListsLoaded
    /\ result.passed = ~ListsLoaded

\* a story of N5 words repeated to 1000 tokens or more, validated for N3:
\* neither too hard nor too obscure, and it fails
C24_Witness ==
  /\ NoTargetLevelWord /\ ListsLoaded
  /\ call.target_level = "N3" /\ Len(call.tokens) >= 1000
  /\ BelowTarget = Candidates
  /\ result.not_too_hard /\ result.not_too_obscure
  /\ ~result.has_learning_value /\ ~result.passed

\* C25: for target level N1 not_too_hard is true in the result of every
\* validate_tokens call, whatever the token list and the number of words
C25_N1NeverTooHard ==
  (ValidateReturned /\ call.target_level = "N1") => result.not_too_hard

\* an N1 call scored against loaded lists, with words of every level and
\* the sentinel -1 as limit
C25_Witness ==
  /\ ValidateReturned /\ ListsLoaded /\ call.target_level = "N1"
  /\ result.unique_words >= 12
  /\ result.max_above_threshold = -1
  /\ result.above_level_count = 0
  /\ result.not_too_hard

\* no word-list data could be loaded: the data directory is missing, or it
\* exists and every level file is missing
NothingLoaded ==
  /\ vpc # "new"
  /\ \/ ~data_dir_exists
     \/ \A l \in Range(JLPT_LEVELS) : ~level_files[l].exists

\* C26: whenever no word-list data could be loaded the index holds no
\* word, get_word_level returns None for every word, and validate_tokens
\* with a valid target level returns the neutral result with passed = TRUE
C26_FailOpenWithoutData ==
  NothingLoaded =>
    /\ \A l \in DOMAIN word_lists : word_lists[l] = {}
    /\ \A l \in DOMAIN level_specific : level_specific[l] = {}
    /\ LookupReturned => result.level = NoLevel
    /\ (ValidateReturned /\ ValidLevel(call.target_level)) =>
         /\ result.passed
         /\ NeutralResult

(***************************************************************************)
(* get_validator and get_tokenizer_service under concurrent callers        *)
(***************************************************************************)
MaxCallers == 3
Callers == 1..MaxCallers

\* a caller that is not inside one of the two functions
Outside == [fn |-> "none", saw_none |-> FALSE]

\* variant: callers are preempted anywhere, as threads are
MayRunPreemptively(c) == TRUE

\* The callers are coroutines of one event loop (the routers and the
\* pipeline are async def), and get_validator and get_tokenizer_service
\* hold no await: a caller inside one of them runs to its return before
\* any other caller runs.
MayRun(c) == \A d \in Callers \ {c} : position[d] = Outside

\* if _validator is None / if _tokenizer_service is None
NeedsConstruction(singleton) == singleton = 0

InitSingleton ==
  /\ data_dir_exists \in BOOLEAN
  /\ level_files = (IF data_dir_exists THEN LevelFiles("standard") ELSE LevelFiles("nofiles"))
  /\ word_lists = EmptyDict
  /\ level_specific = EmptyDict
  /\ vpc = "new"
  /\ call = NoCall
  /\ result = NoResult
  /\ previous = NoPrevious
  /\ _validator = 0
  /\ _tokenizer_service = 0
  /\ constructed = [validator |-> 0, tokenizer |-> 0]
  /\ received = [c \in Callers |-> [validator |-> 0, tokenizer |-> 0]]
  /\ position = [c \in Callers |-> Outside]
  /\ TokenizerUnused
  /\ LoopUnused

\* c enters get_validator or get_tokenizer_service and tests the global
TestGlobal(c) ==
  /\ MayRun(c)
  /\ position[c] = Outside
  /\ \/ position' = [position EXCEPT ![c] =
                       [fn |-> "get_validator", saw_none |-> NeedsConstruction(_validator)]]
     \/ position' = [position EXCEPT ![c] =
                       [fn |-> "get_tokenizer_service",
                        saw_none |-> NeedsConstruction(_tokenizer_service)]]
  /\ UNCHANGED <<vvars, _validator, _tokenizer_service, constructed, received,
                 tvars, lvars>>

\* the rest of get_validator: the instance is constructed and assigned when
\* the test saw None (__init__ loads the word lists), and the global is
\* returned; a new instance is named by its rank among those constructed
FinishGetValidator(c) ==
  /\ MayRun(c)
  /\ position[c].fn = "get_validator"
  /\ IF position[c].saw_none
       THEN /\ constructed' = [constructed EXCEPT !.validator = @ + 1]
            /\ _validator' = constructed.validator + 1
            /\ IF ~data_dir_exists
                 THEN /\ level_specific' = EmptyDict
                      /\ word_lists' = EmptyDict
                 ELSE /\ level_specific' = LoadLevelSpecific(level_files)
                      /\ word_lists' = BuildWordLists(LoadLevelSpecific(level_files))
            /\ vpc' = "idle"
       ELSE UNCHANGED <<constructed, _validator, level_specific, word_lists, vpc>>
  /\ received' = [received EXCEPT ![c].validator = _validator']
  /\ position' = [position EXCEPT ![c] = Outside]
  /\ UNCHANGED <<data_dir_exists, level_files, call, result, previous,
                 _tokenizer_service, tvars, lvars>>

\* the rest of get_tokenizer_service
FinishGetTokenizerService(c) ==
  /\ MayRun(c)
  /\ position[c].fn = "get_tokenizer_service"
  /\ IF position[c].saw_none
       THEN /\ constructed' = [constructed EXCEPT !.tokenizer = @ + 1]
            /\ _tokenizer_service' = constructed.tokenizer + 1
       ELSE UNCHANGED <<constructed, _tokenizer_service>>
  /\ received' = [received EXCEPT ![c].tokenizer = _tokenizer_service']
  /\ position' = [position EXCEPT ![c] = Outside]
  /\ UNCHANGED <<vvars, _validator, tvars, lvars>>

\* c, holding a validator, looks a word up or validates a story
CallerUsesValidator(c) ==
  /\ MayRun(c)
  /\ position[c] = Outside
  /\ received[c].validator # 0
  /\ \/ \E w \in {LevelWord("N5", 1), UnknownWord(1)} :
          /\ call' = [op |-> "get_word_level", tokens |-> <<>>,
                      target_level |-> NoLevel, word |-> w]
          /\ result' = [op |-> "get_word_level", level |-> get_word_level(w)]
     \/ \E w \in {LevelWord("N5", 1), UnknownWord(1)} :
          LET tokens == <<make_token(w)>>
          IN  \E r \in validate_tokens(tokens, "N5") :
                /\ call' = [op |-> "validate_tokens", tokens |-> tokens,
                            target_level |-> "N5", word |-> None]
                /\ result' = r
  /\ UNCHANGED <<data_dir_exists, level_files, word_lists, level_specific, vpc,
                 previous, svars, tvars, lvars>>

NextSingleton ==
  \/ \E c \in Callers : TestGlobal(c)
  \/ \E c \in Callers : FinishGetValidator(c)
  \/ \E c \in Callers : FinishGetTokenizerService(c)
  \/ \E c \in Callers : CallerUsesValidator(c)

SpecSingleton == InitSingleton /\ [][NextSingleton]_vars

LeadingRun(s, kanji) ==
  Cardinality({n \in 1..Len(s) : \A i \in 1..n : _is_kanji(s[i]) <=> kanji})
\* s[a:b] for 0 <= a and 0 <= b <= len(s)
Between(s, a, b) == IF a < b THEN SubSeq(s, a + 1, b) ELSE <<>>

\* the parts the claim gives to the kanji runs and embedded kana runs of
\* `body` (the surface without kana prefix and suffix), from the reading
\* position `pos`; the anchor is the first occurrence of the kana run's
\* hiragana form from `pos` on, and when `strictly_after` it is used only if
\* it lies after `pos`
RECURSIVE ClaimedRuns(_, _, _, _, _)
ClaimedRuns(body, reading, reading_end, pos, strictly_after) ==
  IF body = <<>> THEN <<>>
  ELSE LET k == LeadingRun(body, TRUE)
           kanji == SubSeq(body, 1, k)
           after_kanji == SubSeq(body, k + 1, Len(body))
       IN  IF after_kanji = <<>>
             THEN <<TokenPart(kanji, Between(reading, pos, reading_end))>>
             ELSE LET m == LeadingRun(after_kanji, FALSE)
                      kana == SubSeq(after_kanji, 1, m)
                      anchor == _katakana_to_hiragana(kana)
                      rest == SubSeq(after_kanji, m + 1, Len(after_kanji))
                      occurrences ==
                        {p \in pos..(Len(reading) - Len(anchor)) :
                           SubSeq(reading, p + 1, p + Len(anchor)) = anchor}
                      usable ==
                        /\ occurrences # {}
                        /\ strictly_after => Least(occurrences) > pos
                  IN  IF usable
                        THEN <<TokenPart(kanji, Between(reading, pos, Least(occurrences))),
                               TokenPart(kana, None)>>
                             \o ClaimedRuns(rest, reading, reading_end,
                                            Least(occurrences) + Len(anchor), strictly_after)
                        ELSE <<TokenPart(kanji, Between(reading, pos, reading_end)),
                               TokenPart(kana, None)>>
                             \o ClaimedRuns(rest, reading, reading_end, reading_end,
                                            strictly_after)

ClaimedAlignment(surface, reading, strictly_after) ==
  LET prefix == KanaPrefix(surface)
      suffix == KanaSuffix(surface)
      body == SubSeq(surface, Len(prefix) + 1, Len(surface) - Len(suffix))
  IN  (IF prefix # <<>> THEN <<TokenPart(prefix, None)>> ELSE <<>>)
      \o ClaimedRuns(body, reading, Len(reading) - Len(suffix), Len(prefix), strictly_after)
      \o (IF suffix # <<>> THEN <<TokenPart(suffix, None)>> ELSE <<>>)

\* the tokens of mixed kanji and kana that have a reading at least as long
\* as their kana prefix and suffix together
MixedWithReading ==
  {i \in DOMAIN tokenized :
     /\ Len(tokenized) = Len(tagged)
     /\ HasKanji(tokenized[i].surface) /\ ~AllKanji(tokenized[i].surface)
     /\ AnalyzerReading(tagged[i]) # None
     /\ Len(AnalyzerReading(tagged[i])) >=
          Len(KanaPrefix(tokenized[i].surface)) + Len(KanaSuffix(tokenized[i].surface))}

BestRecordedValidation ==
  DictGet(heap[best_story].metadata, "vocabularyValidation", EmptyDict)

\* the tracked best story and the tracked best validation belong together
BestPairConsistent ==
  best_story # 0 => BestRecordedValidation = best_validation

C30_Accounting ==
  ValidateReturned =>
    /\ result.target_level_count + result.above_level_count + result.unknown_count
         <= result.unique_words
    /\ result.unique_words <= result.total_tokens
    /\ result.readability_score.den > 0
    /\ 0 <= result.readability_score.num
    /\ result.readability_score.num <= result.readability_score.den
    /\ result.passed <=>
         (result.has_learning_value /\ result.not_too_hard /\ result.not_too_obscure)
    /\ NormallyScored =>
         /\ Cardinality(AtTarget) + Cardinality(BelowTarget) <= result.unique_words
         /\ result.readability_score.num * result.unique_words =
              (Cardinality(AtTarget) + Cardinality(BelowTarget)) * result.readability_score.den
         /\ result.has_learning_value <=>
              result.target_level_count >= result.min_target_threshold
         /\ result.not_too_hard <=>
              (result.max_above_threshold = -1
                 \/ result.above_level_count <= result.max_above_threshold)
         /\ result.not_too_obscure <=>
              result.unknown_count <= result.max_unknown_threshold

\* a scored story that passes with a readability strictly between 0 and 1,
\* with a word in none of the three counted categories and a repeated or
\* ignored token
C30_Witness ==
  /\ NormallyScored
  /\ result.passed
  /\ 0 < result.readability_score.num
  /\ result.readability_score.num < result.readability_score.den
  /\ result.target_level_count + result.above_level_count + result.unknown_count
       < result.unique_words
  /\ result.unique_words < result.total_tokens
====
